---- MODULE Spec2Model ----
(***************************************************************************)
(* Buddy: the capture-and-dispatch pipeline.                               *)
(*                                                                         *)
(* Three execution domains are modelled:                                   *)
(*   - the orchestrator (main.rs, run): the loop over hotkey events;       *)
(*   - the hotkey worker thread (hotkey.rs, hotkey_worker) with its OS     *)
(*     message queue, the registration and the unbounded event channel;    *)
(*   - the blocking capture task (audio.rs, capture / capture_with_type)   *)
(*     with the audio driver callback that fills the shared buffer.        *)
(* Strings are sequences of one-character strings, so that trim and the    *)
(* case-insensitive comparison are computed, not assumed.                  *)
(***************************************************************************)
EXTENDS Integers, Sequences, FiniteSets, TLC

VARIABLES
    pc,            \* orchestrator position in run()
    result,        \* what run() returned ("running" while it has not)
    started,       \* number of cycles started: wait() calls that returned Ok
    transcript,    \* text returned by the transcriber for the current cycle
    intent,        \* intent returned by infer_intent for the current cycle
    fbLog,         \* feedback calls issued since the current cycle started
    executed,      \* executor invocations since the current cycle started
    cpc,           \* position of the blocking capture task
    capResult,     \* value returned by capture()
    streams,       \* number of open input streams
    buffer,        \* accumulation buffer shared with the audio callback
    poisoned,      \* the buffer mutex is poisoned (a callback panicked)
    sample_format, \* AudioCapturer.sample_format, fixed at construction
    wpc,           \* position of the hotkey worker thread
    registered,    \* the OS hotkey registration is held
    txAlive,       \* the worker still owns the event sender
    msgQ,          \* the worker thread's OS message queue
    evQ,           \* unit events queued in the unbounded channel
    emitted,       \* number of events the worker has pushed
    burst,         \* events pushed while the current capture was in progress
    mark,          \* first cycle during whose capture two triggers arrived
    lastExec,      \* the executor's result in the current cycle
    evSeq,         \* the queued events, each tagged with its emission number
    lastEv,        \* tag of the event the latest wait() returned
    chord,         \* HotkeyConfig.key, the configured chord
    newResult,     \* what HotkeyListener::new returned ("pending" before)
    ready,         \* the one-shot readiness channel between worker and new()
    thread_id,     \* HotkeyListener.thread_id, the handle's copy
    regCall,       \* arguments of the RegisterHotKey call made
    iInput,        \* transcript and classifier reply handed to infer_intent
    iResult,       \* the Result infer_intent returned for iInput
    stdin,         \* lines typed and not yet read (manual trigger platform)
    eof,           \* standard input has been closed
    confirmed,     \* lines the manual wait() has consumed
    manualEvents,  \* manual wait() calls that returned Ok
    aInput,        \* arguments an audio function is applied to on its own
    aResult,       \* what that function returned for aInput
    channels,      \* AudioCapturer.channels, fixed at construction
    locked,        \* the buffer mutex is held
    cbpc,          \* position of the audio callback in flight
    chunk,         \* native samples the callback in flight was handed
    delivered,     \* the callbacks of this session, in the order they ran
    attempt        \* the readiness probe's attempt counter (0 outside it)

vars == <<pc, result, started, transcript, intent, fbLog, executed,
          cpc, capResult, streams, buffer, poisoned, sample_format,
          wpc, registered, txAlive, msgQ, evQ, emitted, burst, mark,
          lastExec, evSeq, lastEv,
          chord, newResult, ready, thread_id, regCall,
          iInput, iResult, stdin, eof, confirmed, manualEvents,
          aInput, aResult, channels, locked, cbpc, chunk, delivered,
          attempt>>

orchVars == <<pc, result, started, transcript, intent, fbLog, executed,
              lastExec>>
capVars  == <<cpc, capResult, streams, buffer, poisoned>>
hkVars   == <<wpc, registered, txAlive, msgQ, evQ, emitted>>
ghostVars == <<burst, mark>>
fifoVars == <<evSeq, lastEv>>
bridgeVars == <<chord, newResult, ready, thread_id, regCall>>
pureVars == <<iInput, iResult>>
manualVars == <<stdin, eof, confirmed, manualEvents>>
audioVars == <<aInput, aResult>>
sessionVars == <<channels, locked, cbpc, chunk, delivered>>
\* what the pipeline never changes once run() has built its parts
fixedVars == <<sample_format, attempt, bridgeVars, pureVars, manualVars,
               audioVars, sessionVars>>

----------------------------------------------------------------------------
(* Bounds *)

MaxTriggers == 3   \* hotkey presses the environment makes
MaxLines    == 3   \* lines the user types on standard input
MaxWaits    == 4   \* manual wait() calls followed
MaxMsgs     == 2   \* messages the environment leaves pending in msgQ
MaxChunks   == 1   \* callback deliveries kept per capture
MaxSamples  == 4   \* samples handed to resample_linear on its own
MaxChannels == 2   \* channels of the input device
MaxDevices  == 2   \* input devices the host enumerates
MaxCallbacks == 2  \* callbacks the driver makes in one capture session
LiveTriggers == 2  \* presses the environment makes under FairSpec
LiveMsgs    == 1   \* messages it leaves pending under FairSpec

----------------------------------------------------------------------------
(* Strings *)

None == "None"

Whitespace == {" ", "\t", "\n"}

RECURSIVE TrimStart(_)
TrimStart(s) ==
    IF s # <<>> /\ Head(s) \in Whitespace THEN TrimStart(Tail(s)) ELSE s

RECURSIVE TrimEndMatches(_, _)
TrimEndMatches(s, chars) ==
    IF s # <<>> /\ s[Len(s)] \in chars
    THEN TrimEndMatches(SubSeq(s, 1, Len(s) - 1), chars)
    ELSE s

Trim(s) == TrimEndMatches(TrimStart(s), Whitespace)

UpperLetters == <<"A", "B", "C", "D", "E", "F", "G", "H", "I", "J", "K", "L", "M",
                 "N", "O", "P", "Q", "R", "S", "T", "U", "V", "W", "X", "Y", "Z">>
LowerLetters == <<"a", "b", "c", "d", "e", "f", "g", "h", "i", "j", "k", "l", "m",
                 "n", "o", "p", "q", "r", "s", "t", "u", "v", "w", "x", "y", "z">>

\* to_ascii_lowercase of one character
LowerChar(c) ==
    IF \E i \in 1..Len(UpperLetters) : UpperLetters[i] = c
    THEN LowerLetters[CHOOSE i \in 1..Len(UpperLetters) : UpperLetters[i] = c]
    ELSE c

\* str::to_lowercase on the characters used here
ToLower(s) == [i \in 1..Len(s) |-> LowerChar(s[i])]

\* str::split(sep): the pieces between the separators, empty ones included
RECURSIVE SplitFrom(_, _, _)
SplitFrom(s, sep, piece) ==
    IF s = <<>> THEN <<piece>>
    ELSE IF Head(s) = sep
         THEN <<piece>> \o SplitFrom(Tail(s), sep, <<>>)
         ELSE SplitFrom(Tail(s), sep, Append(piece, Head(s)))

Split(s, sep) == SplitFrom(s, sep, <<>>)

EqIgnoreAsciiCase(s, t) ==
    /\ Len(s) = Len(t)
    /\ \A i \in 1..Len(s) : LowerChar(s[i]) = LowerChar(t[i])

HelpWord == <<"h", "e", "l", "p">>

\* main.rs 194-197
IsHelp(t) == EqIgnoreAsciiCase(TrimEndMatches(Trim(t), {".", "!", "?"}), HelpWord)

\* main.rs 188
IsBlank(t) == Trim(t) = <<>>

Transcripts ==
    { <<>>,
      <<" ">>,
      <<"h", "e", "l", "p">>,
      <<" ", "H", "e", "l", "p", "!", " ">>,
      <<"h", "e", "l", "p", " ", "m", "e">>,
      <<"o", "p", "e", "n">> }

----------------------------------------------------------------------------
(* Configuration snapshot and intents *)

\* config.rs 92-109: the switches of SystemConfig
SystemActionNames ==
    {"volume_mute", "volume_up", "volume_down", "volume_set", "sleep",
     "shutdown", "restart", "lock"}

\* config.rs 256-283: the names of the switches that are on
enabled_actions(system) == {a \in SystemActionNames : system[a]}

\* The configuration the pipeline is run with
files        == {"resume"}
applications == {"chrome"}
PipelineConfig ==
    [files |-> files, applications |-> applications,
     system |-> [a \in SystemActionNames |-> a = "lock"]]
system_actions == enabled_actions(PipelineConfig.system)

\* The shapes the JSON field `confidence` arrives in. Numbers are written in
\* hundredths (0.9 is 90), strings as character sequences.
Confidences ==
    {[shape |-> "number", n |-> n] : n \in {-50, 0, 45, 100, 150}}
    \cup {[shape |-> "string", s |-> s] :
             s \in {<<"h", "i", "g", "h">>, <<"m", "e", "d", "i", "u", "m">>, <<"l", "o", "w">>,
                    <<"H", "I", "G", "H">>, <<"M", "e", "d", "i", "u", "m">>, <<"m", "a", "y", "b", "e">>,
                    <<"0", ".", "9">>, <<>>}}
    \cup {[shape |-> "bool", b |-> b] : b \in BOOLEAN}
    \cup {[shape |-> "missing"], [shape |-> "null"], [shape |-> "array"],
          [shape |-> "object"]}

\* The confidence shape the pipeline is run with
PipelineConfidences == {[shape |-> "number", n |-> 45]}

RawIntentsWith(confidences) ==
    [action     : {"open_file", "Open_App", "system", "answer", "dance", None},
     target     : {"resume", "chrome", "lock", "ghost", None},
     response   : {"5", None},
     confidence : confidences]

RawIntents == RawIntentsWith(Confidences)

ToLowercase(a) == IF a = "Open_App" THEN "open_app" ELSE a

NoIntent == [kind |-> "None", target |-> None, response |-> None,
             confidence |-> 0]

Unknown(confidence) ==
    [kind |-> "Unknown", target |-> None, response |-> None,
     confidence |-> confidence]

\* intent.rs 31-33: what a blank transcript gives
UnknownIntent == Unknown(0)

\* The string is compared as it arrived, capitals and all.
DecodeConfidence_CaseSensitive(c) ==
    CASE c.shape = "number" -> c.n
      [] c.shape = "string" ->
           (CASE c.s = <<"h", "i", "g", "h">> -> 90
              [] c.s = <<"m", "e", "d", "i", "u", "m">> -> 60
              [] c.s = <<"l", "o", "w">> -> 30
              [] OTHER -> 0)
      [] c.shape = "bool" -> IF c.b THEN 100 ELSE 0
      [] OTHER -> 0

\* intent.rs 225-235: the confidence, in hundredths
DecodeConfidence(c) ==
    CASE c.shape = "number" -> c.n
      [] c.shape = "string" ->
           (CASE ToLower(c.s) = <<"h", "i", "g", "h">> -> 90
              [] ToLower(c.s) = <<"m", "e", "d", "i", "u", "m">> -> 60
              [] ToLower(c.s) = <<"l", "o", "w">> -> 30
              [] OTHER -> 0)
      [] c.shape = "bool" -> IF c.b THEN 100 ELSE 0
      [] OTHER -> 0

\* intent.rs 210-256, impl From<RawIntent> for Intent
\* The field an action needs is not looked for.
FromRaw_NoFieldCheck(raw) ==
    LET a == IF raw.action = None THEN "" ELSE ToLowercase(raw.action)
        confidence == DecodeConfidence(raw.confidence)
    IN
    CASE a = "open_file" ->
           [kind |-> "OpenFile", target |-> raw.target, response |-> None,
            confidence |-> confidence]
      [] a = "open_app" ->
           [kind |-> "OpenApp", target |-> raw.target, response |-> None,
            confidence |-> confidence]
      [] a = "system" ->
           [kind |-> "System", target |-> raw.target, response |-> None,
            confidence |-> confidence]
      [] a = "answer" ->
           [kind |-> "Answer", target |-> None, response |-> raw.response,
            confidence |-> confidence]
      [] OTHER -> Unknown(confidence)

FromRaw(raw) ==
    LET a == IF raw.action = None THEN "" ELSE ToLowercase(raw.action)
        confidence == DecodeConfidence(raw.confidence)
    IN
    CASE a = "open_file" ->
           IF raw.target # None
           THEN [kind |-> "OpenFile", target |-> raw.target, response |-> None,
                 confidence |-> confidence]
           ELSE Unknown(confidence)
      [] a = "open_app" ->
           IF raw.target # None
           THEN [kind |-> "OpenApp", target |-> raw.target, response |-> None,
                 confidence |-> confidence]
           ELSE Unknown(confidence)
      [] a = "system" ->
           IF raw.target # None
           THEN [kind |-> "System", target |-> raw.target, response |-> None,
                 confidence |-> confidence]
           ELSE Unknown(confidence)
      [] a = "answer" ->
           IF raw.response # None
           THEN [kind |-> "Answer", target |-> None, response |-> raw.response,
                 confidence |-> confidence]
           ELSE Unknown(confidence)
      [] OTHER -> Unknown(confidence)

\* Every target passes.
validate_intent_target_Lenient(i) == i.kind # "None"

\* intent.rs 114-137, against a given configuration
validate_target(i, config) ==
    CASE i.kind = "OpenFile" -> i.target \in config.files
      [] i.kind = "OpenApp"  -> i.target \in config.applications
      [] i.kind = "System"   -> i.target \in enabled_actions(config.system)
      [] OTHER               -> TRUE

\* intent.rs 114-137
validate_intent_target(i) == validate_target(i, PipelineConfig)

\* What the classifier transport delivers: a transport failure, a body that
\* is not the expected JSON, or a parsed RawIntent.
RepliesWith(raws) ==
    {[t |-> "Request"], [t |-> "Http"], [t |-> "Response"], [t |-> "NotJson"]}
    \cup {[t |-> "Json", raw |-> r] : r \in raws}

Replies == RepliesWith(RawIntents)

\* The replies the pipeline is run with
PipelineReplies == RepliesWith(RawIntentsWith(PipelineConfidences))

\* intent.rs 34-64: the request is posted to the classifier and its reply
\* is decoded and validated; sent records that the request went out
PostRequest(reply) ==
    CASE reply.t = "Request"  -> [ok |-> FALSE, intent |-> NoIntent,
                                  err |-> "Request", sent |-> TRUE]
      [] reply.t = "Http"     -> [ok |-> FALSE, intent |-> NoIntent,
                                  err |-> "Http", sent |-> TRUE]
      [] reply.t = "Response" -> [ok |-> FALSE, intent |-> NoIntent,
                                  err |-> "Response", sent |-> TRUE]
      [] reply.t = "NotJson"  -> [ok |-> FALSE, intent |-> NoIntent,
                                  err |-> "InvalidFormat", sent |-> TRUE]
      [] OTHER ->
           LET i == FromRaw(reply.raw) IN
           IF validate_intent_target(i)
           THEN [ok |-> TRUE, intent |-> i, err |-> "", sent |-> TRUE]
           ELSE [ok |-> FALSE, intent |-> NoIntent, err |-> "UnknownTarget",
                 sent |-> TRUE]

\* The blank check is left out: every transcript is posted.
infer_intent_AlwaysPosts(transcription, reply) == PostRequest(reply)

\* intent.rs 25-65: a blank transcript returns Unknown at once (30-32),
\* any other is posted to the classifier
infer_intent(transcription, reply) ==
    IF IsBlank(transcription)
    THEN [ok |-> TRUE, intent |-> UnknownIntent, err |-> "", sent |-> FALSE]
    ELSE PostRequest(reply)

\* The targets in use that start with "volume_set"
VolumeSetForms == {"volume_set", "volume_set_40"}

\* Only the seven exact names are recognized.
parse_system_action_ExactOnly(target) ==
    target \in {"volume_mute", "volume_up", "volume_down", "sleep", "shutdown",
                "restart", "lock"}

\* executor.rs 61-77: whether the target names a system action: one of seven
\* exact names, or any string that starts with "volume_set"
parse_system_action(target) ==
    \/ target \in {"volume_mute", "volume_up", "volume_down", "sleep",
                   "shutdown", "restart", "lock"}
    \/ target \in VolumeSetForms

\* executor.rs 15-59: the executor's result against a given configuration,
\* given whether the OS call works
execute_with(i, config, osOk) ==
    CASE i.kind = "OpenFile" ->
           IF i.target \notin config.files THEN "Err(MissingMapping)"
           ELSE IF osOk THEN "Ok(Action)" ELSE "Err(Windows)"
      [] i.kind = "OpenApp" ->
           IF i.target \notin config.applications THEN "Err(MissingMapping)"
           ELSE IF osOk THEN "Ok(Action)" ELSE "Err(Windows)"
      [] i.kind = "System" ->
           IF ~parse_system_action(i.target)
           THEN "Err(UnsupportedSystemAction)"
           ELSE IF osOk THEN "Ok(Action)" ELSE "Err(Windows)"
      [] i.kind = "Answer" -> "Ok(Answer)"
      [] OTHER -> "Err(UnknownIntent)"

\* executor.rs 15-77: the executor of the pipeline
execute(i, osOk) == execute_with(i, PipelineConfig, osOk)

----------------------------------------------------------------------------
(* The chord string and its parse (hotkey.rs 119-206)                      *)

\* hotkey.rs 125-128: the modifier a (trimmed, lower-cased) token names
ModifierOf(token) ==
    CASE token \in {<<"c", "t", "r", "l">>, <<"c", "o", "n", "t", "r", "o", "l">>} -> "MOD_CONTROL"
      [] token = <<"a", "l", "t">> -> "MOD_ALT"
      [] token = <<"s", "h", "i", "f", "t">> -> "MOD_SHIFT"
      [] token \in {<<"w", "i", "n">>, <<"w", "i", "n", "d", "o", "w", "s">>} -> "MOD_WIN"
      [] OTHER -> None

\* hotkey.rs 140-206, parse_key: the key names that have a virtual key code
KeyNames ==
    { <<"a">>, <<"b">>, <<"c">>, <<"d">>, <<"e">>, <<"f">>, <<"g">>,
      <<"h">>, <<"i">>, <<"j">>, <<"k">>, <<"l">>, <<"m">>, <<"n">>,
      <<"o">>, <<"p">>, <<"q">>, <<"r">>, <<"s">>, <<"t">>, <<"u">>,
      <<"v">>, <<"w">>, <<"x">>, <<"y">>, <<"z">>, <<"0">>, <<"1">>,
      <<"2">>, <<"3">>, <<"4">>, <<"5">>, <<"6">>, <<"7">>, <<"8">>,
      <<"9">>, <<"s", "p", "a", "c", "e">>, <<"e", "n", "t", "e", "r">>,
      <<"f", "1">>, <<"f", "2">>, <<"f", "3">>, <<"f", "4">>, <<"f", "5">>,
      <<"f", "6">>, <<"f", "7">>, <<"f", "8">>, <<"f", "9">>, <<"f", "1", "0">>,
      <<"f", "1", "1">>, <<"f", "1", "2">>, <<"f", "1", "3">>, <<"f", "1", "4">>,
      <<"f", "1", "5">>, <<"f", "1", "6">>, <<"f", "1", "7">>, <<"f", "1", "8">>,
      <<"f", "1", "9">>, <<"f", "2", "0">>, <<"f", "2", "1">>, <<"f", "2", "2">>,
      <<"f", "2", "3">>, <<"f", "2", "4">> }

\* hotkey.rs 121: `let mut key = None`; no key name is the empty string
NoKey == <<>>

\* A token that names neither a modifier nor a key is skipped.
RECURSIVE ParseTokens_SkipUnknown(_, _, _)
ParseTokens_SkipUnknown(tokens, modifiers, key) ==
    IF tokens = <<>>
    THEN IF key = NoKey
         THEN [ok |-> FALSE, modifiers |-> {}, key |-> NoKey,
               err |-> <<"missing key">>]
         ELSE [ok |-> TRUE, modifiers |-> modifiers, key |-> key, err |-> <<>>]
    ELSE LET token == ToLower(Trim(Head(tokens))) IN
         IF ModifierOf(token) # None
         THEN ParseTokens_SkipUnknown(Tail(tokens),
                                      modifiers \cup {ModifierOf(token)}, key)
         ELSE ParseTokens_SkipUnknown(Tail(tokens), modifiers,
                                      IF token \in KeyNames THEN token ELSE key)

\* hotkey.rs 122-135: the loop over the tokens, in order
RECURSIVE ParseTokens(_, _, _)
ParseTokens(tokens, modifiers, key) ==
    IF tokens = <<>>
    THEN IF key = NoKey
         THEN [ok |-> FALSE, modifiers |-> {}, key |-> NoKey,
               err |-> <<"missing key">>]
         ELSE [ok |-> TRUE, modifiers |-> modifiers, key |-> key, err |-> <<>>]
    ELSE LET token == ToLower(Trim(Head(tokens))) IN
         IF ModifierOf(token) # None
         THEN ParseTokens(Tail(tokens), modifiers \cup {ModifierOf(token)}, key)
         ELSE IF token \in KeyNames
              THEN ParseTokens(Tail(tokens), modifiers, token)
              ELSE [ok |-> FALSE, modifiers |-> {}, key |-> NoKey, err |-> token]

\* hotkey.rs 119-138
parse_hotkey(hotkey) == ParseTokens(Split(hotkey, "+"), {}, NoKey)

\* hotkey.rs 24, 41: the identifier the first listener draws
hotkey_id == 1

\* hotkey.rs 83-91: the arguments of the RegisterHotKey call
RegisterArgs(id, hotkey) ==
    [id |-> id,
     flags |-> parse_hotkey(hotkey).modifiers \cup {"MOD_NOREPEAT"},
     vk |-> parse_hotkey(hotkey).key]

----------------------------------------------------------------------------
(* Initial state: run() has built the capturer, the transcriber and the    *)
(* hotkey listener; the worker holds the registration and is in its loop.  *)

\* cpal sample formats; the devices tried here report one the capturer
\* supports and one it does not
SampleFormats == {"I16", "U16", "F32", "I8"}
DeviceFormats == {"F32", "I8"}

Samples == {-1, 1}

NoCapture     == [ok |-> FALSE, err |-> "pending", data |-> <<>>]
CaptureOk(d)  == [ok |-> TRUE, err |-> "", data |-> d]
CaptureErr(e) == [ok |-> FALSE, err |-> e, data |-> <<>>]

\* config.rs 177-180: the default chord, "ctrl+alt+b"
default_key == <<"c", "t", "r", "l", "+", "a", "l", "t", "+", "b">>

\* hotkey.rs 82: what GetCurrentThreadId returns in the worker thread
WorkerTid == "worker"

NoInput  == [transcription |-> <<>>, reply |-> [t |-> "None"]]
NoResult == [ok |-> FALSE, intent |-> NoIntent, err |-> "pending",
             sent |-> FALSE]

\* No audio function is being applied on its own
NoAudio == [f |-> "none"]

AudioIdle ==
    /\ aInput = NoAudio
    /\ aResult = NoAudio

\* The capture task is followed at the grain of its own steps: a mono
\* device, no callback in flight
SessionIdle ==
    /\ channels = 1
    /\ locked = FALSE
    /\ cbpc = "idle"
    /\ chunk = <<>>
    /\ delivered = <<>>

\* Values of the parts of the state the pipeline does not touch: the listener
\* was built from the default chord, infer_intent has not been applied
\* on its own, and the manual trigger of the other platforms is not in use.
PipelineFixed ==
    /\ chord = default_key
    /\ newResult = "Ok"
    /\ ready = [t |-> "taken", thread_id |-> None]  \* the report was received
    /\ thread_id = WorkerTid
    /\ regCall = RegisterArgs(hotkey_id, default_key)
    /\ iInput = NoInput
    /\ iResult = NoResult
    /\ stdin = <<>>
    /\ eof = FALSE
    /\ confirmed = 0
    /\ manualEvents = 0

Init ==
    /\ pc = "wait"
    /\ result = "running"
    /\ started = 0
    /\ transcript = <<>>
    /\ intent = NoIntent
    /\ fbLog = <<>>
    /\ executed = 0
    /\ cpc = "idle"
    /\ capResult = NoCapture
    /\ streams = 0
    /\ buffer = <<>>
    /\ poisoned = FALSE
    /\ sample_format \in DeviceFormats
    /\ attempt = 0
    /\ wpc = "loop"
    /\ registered = TRUE
    /\ txAlive = TRUE
    /\ msgQ = <<>>
    /\ evQ = 0
    /\ emitted = 0
    /\ burst = 0
    /\ mark = 0
    /\ lastExec = None
    /\ evSeq = <<>>
    /\ lastEv = 0
    /\ PipelineFixed
    /\ AudioIdle
    /\ SessionIdle

----------------------------------------------------------------------------
(* The hotkey worker thread and its OS message queue (hotkey.rs)           *)

WM_QUIT   == [message |-> "WM_QUIT", wParam |-> 0]
WM_HOTKEY == [message |-> "WM_HOTKEY", wParam |-> hotkey_id]

\* Messages that reach the thread's queue: the registered chord, a hotkey
\* message carrying another identifier, an unrelated message, a quit.
Messages ==
    { WM_HOTKEY,
      [message |-> "WM_HOTKEY", wParam |-> hotkey_id + 1],
      [message |-> "WM_NULL", wParam |-> hotkey_id],
      WM_QUIT }

RECURSIVE Count(_, _)
Count(q, m) ==
    IF q = <<>> THEN 0
    ELSE (IF Head(q) = m THEN 1 ELSE 0) + Count(Tail(q), m)

CaptureInProgress == cpc \notin {"idle", "done"}

\* Every hotkey message counts, whatever identifier it carries.
Matches_AnyId(msg) == msg.message = "WM_HOTKEY"

\* hotkey.rs 107: the retrieved message is this bridge's trigger
Matches(msg) == msg.message = "WM_HOTKEY" /\ msg.wParam = hotkey_id

\* The worker coalesces triggers: an event is pushed only into an empty queue.
WorkerGetMessage_Coalesce ==
    /\ wpc = "loop"
    /\ msgQ # <<>>
    /\ LET msg == Head(msgQ) IN
       /\ msgQ' = Tail(msgQ)
       /\ IF msg.message = "WM_QUIT"
          THEN /\ wpc' = "unregister"
               /\ UNCHANGED <<evQ, emitted, burst, mark, evSeq>>
          ELSE /\ wpc' = wpc
               /\ IF Matches(msg)
                  THEN /\ evQ' = IF evQ = 0 THEN 1 ELSE evQ
                       /\ evSeq' = IF evQ = 0 THEN <<emitted + 1>> ELSE evSeq
                       /\ emitted' = emitted + 1
                       /\ burst' = IF CaptureInProgress THEN burst + 1 ELSE burst
                       /\ mark' = IF mark = 0 /\ CaptureInProgress /\ burst + 1 = 2
                                  THEN started ELSE mark
                  ELSE UNCHANGED <<evQ, emitted, burst, mark, evSeq>>
    /\ UNCHANGED <<registered, txAlive, lastEv>>
    /\ UNCHANGED <<orchVars, capVars, fixedVars>>

\* hotkey.rs 102-113: one turn of the message loop
WorkerGetMessage ==
    /\ wpc = "loop"
    /\ msgQ # <<>>
    /\ LET msg == Head(msgQ) IN
       /\ msgQ' = Tail(msgQ)
       /\ IF msg.message = "WM_QUIT"
          THEN \* GetMessageW returns 0: break
               /\ wpc' = "unregister"
               /\ UNCHANGED <<evQ, emitted, burst, mark, evSeq>>
          ELSE /\ wpc' = wpc
               /\ IF Matches(msg)
                  THEN /\ evQ' = evQ + 1
                       /\ evSeq' = Append(evSeq, emitted + 1)
                       /\ emitted' = emitted + 1
                       /\ burst' = IF CaptureInProgress THEN burst + 1 ELSE burst
                       /\ mark' = IF mark = 0 /\ CaptureInProgress /\ burst + 1 = 2
                                  THEN started ELSE mark
                  ELSE UNCHANGED <<evQ, emitted, burst, mark, evSeq>>
    /\ UNCHANGED <<registered, txAlive, lastEv>>
    /\ UNCHANGED <<orchVars, capVars, fixedVars>>

\* hotkey.rs 103-106: GetMessageW reports an error (a negative status):
\* break, without a message having been retrieved
WorkerGetMessageFails ==
    /\ wpc = "loop"
    /\ wpc' = "unregister"
    /\ UNCHANGED <<registered, txAlive, msgQ, evQ, emitted>>
    /\ UNCHANGED <<orchVars, capVars, fixedVars, ghostVars, fifoVars>>

\* The worker leaves without releasing the registration.
WorkerUnregister_Skip ==
    /\ wpc = "unregister"
    /\ wpc' = "exiting"
    /\ UNCHANGED <<registered, txAlive, msgQ, evQ, emitted>>
    /\ UNCHANGED <<orchVars, capVars, fixedVars, ghostVars, fifoVars>>

\* hotkey.rs 115: UnregisterHotKey after the loop
WorkerUnregister ==
    /\ wpc = "unregister"
    /\ registered' = FALSE
    /\ wpc' = "exiting"
    /\ UNCHANGED <<txAlive, msgQ, evQ, emitted>>
    /\ UNCHANGED <<orchVars, capVars, fixedVars, ghostVars, fifoVars>>

\* hotkey.rs 116-117: the thread function returns; its sender is dropped and
\* the thread's message queue goes away with the thread
WorkerExit ==
    /\ wpc = "exiting"
    /\ txAlive' = FALSE
    /\ msgQ' = <<>>
    /\ wpc' = "exited"
    /\ UNCHANGED <<registered, evQ, emitted>>
    /\ UNCHANGED <<orchVars, capVars, fixedVars, ghostVars, fifoVars>>

Worker == WorkerGetMessage \/ WorkerUnregister \/ WorkerExit

\* The environment: the user presses the chord (only a held registration
\* produces the message), other messages arrive, something posts a quit.
EnvPost(msg) ==
    /\ wpc \notin {"unspawned", "register", "exited"}
    /\ Len(msgQ) < MaxMsgs
    /\ Matches(msg) => /\ registered
                       /\ emitted + Count(msgQ, WM_HOTKEY) < MaxTriggers
    /\ msg = WM_QUIT => Count(msgQ, WM_QUIT) = 0
    /\ msgQ' = Append(msgQ, msg)
    /\ UNCHANGED <<wpc, registered, txAlive, evQ, emitted>>
    /\ UNCHANGED <<orchVars, capVars, fixedVars, ghostVars, fifoVars>>

----------------------------------------------------------------------------
(* The blocking capture task and the audio callback (audio.rs)             *)

\* audio.rs 126-137 and 176-208: dispatch on the format, build the stream
CaptureBuild ==
    /\ cpc = "build"
    /\ IF sample_format \notin {"I16", "U16", "F32"}
       THEN /\ capResult' = CaptureErr("UnsupportedFormat")
            /\ cpc' = "done"
            /\ UNCHANGED <<streams, buffer, poisoned>>
       ELSE \E built \in BOOLEAN :
              IF built
              THEN /\ streams' = streams + 1
                   /\ buffer' = <<>>
                   /\ poisoned' = FALSE
                   /\ cpc' = "play"
                   /\ UNCHANGED capResult
              ELSE /\ capResult' = CaptureErr("BuildStream")
                   /\ cpc' = "done"
                   /\ UNCHANGED <<streams, buffer, poisoned>>
    /\ UNCHANGED <<orchVars, hkVars, fixedVars, ghostVars, fifoVars>>

\* A failed play() returns without closing the stream.
CapturePlay_Leak ==
    /\ cpc = "play"
    /\ \E playing \in BOOLEAN :
         IF playing
         THEN /\ cpc' = "sleep"
              /\ UNCHANGED capResult
         ELSE /\ capResult' = CaptureErr("PlayStream")
              /\ cpc' = "done"
    /\ UNCHANGED <<streams, buffer, poisoned>>
    /\ UNCHANGED <<orchVars, hkVars, fixedVars, ghostVars, fifoVars>>

\* audio.rs 210: stream.play(); on failure the stream is dropped on return
CapturePlay ==
    /\ cpc = "play"
    /\ \E playing \in BOOLEAN :
         IF playing
         THEN /\ cpc' = "sleep"
              /\ UNCHANGED <<capResult, streams>>
         ELSE /\ streams' = streams - 1
              /\ capResult' = CaptureErr("PlayStream")
              /\ cpc' = "done"
    /\ UNCHANGED <<buffer, poisoned>>
    /\ UNCHANGED <<orchVars, hkVars, fixedVars, ghostVars, fifoVars>>

\* audio.rs 188-203: the driver callback appends under the lock; when the
\* lock is poisoned the delivery is skipped
AudioCallback ==
    /\ cpc = "sleep"
    /\ streams > 0
    /\ ~poisoned
    /\ Len(buffer) < MaxChunks
    /\ \E s \in Samples : buffer' = Append(buffer, s)
    /\ UNCHANGED <<cpc, capResult, streams, poisoned>>
    /\ UNCHANGED <<orchVars, hkVars, fixedVars, ghostVars, fifoVars>>

\* A callback panics while it holds the lock: the mutex is poisoned
CallbackPanic ==
    /\ cpc = "sleep"
    /\ streams > 0
    /\ ~poisoned
    /\ poisoned' = TRUE
    /\ UNCHANGED <<cpc, capResult, streams, buffer>>
    /\ UNCHANGED <<orchVars, hkVars, fixedVars, ghostVars, fifoVars>>

\* The sleep ends but the stream is kept open while the buffer is drained.
CaptureStop_KeepStream ==
    /\ cpc = "sleep"
    /\ cpc' = "drain"
    /\ UNCHANGED <<capResult, streams, buffer, poisoned>>
    /\ UNCHANGED <<orchVars, hkVars, fixedVars, ghostVars, fifoVars>>

\* audio.rs 211-212: the sleep ends, the stream is dropped
CaptureStop ==
    /\ cpc = "sleep"
    /\ streams' = streams - 1
    /\ cpc' = "drain"
    /\ UNCHANGED <<capResult, buffer, poisoned>>
    /\ UNCHANGED <<orchVars, hkVars, fixedVars, ghostVars, fifoVars>>

\* audio.rs 214-215: lock and take the buffer
CaptureDrain ==
    /\ cpc = "drain"
    /\ IF poisoned
       THEN /\ capResult' = CaptureErr("BufferAccess")
            /\ UNCHANGED buffer
       ELSE /\ capResult' = CaptureOk(buffer)
            /\ buffer' = <<>>
    /\ cpc' = "done"
    /\ UNCHANGED <<streams, poisoned>>
    /\ UNCHANGED <<orchVars, hkVars, fixedVars, ghostVars, fifoVars>>

CaptureTask == CaptureBuild \/ CapturePlay \/ CaptureStop \/ CaptureDrain

----------------------------------------------------------------------------
(* The orchestrator: the loop of run() (main.rs 163-237)                   *)

Returning == {"drop", "join", "returned"}

\* The state a cycle starts from once wait() has returned an event
StartCycle ==
    /\ started' = started + 1
    /\ transcript' = <<>>
    /\ intent' = NoIntent
    /\ fbLog' = <<>>
    /\ executed' = 0
    /\ lastExec' = None
    /\ burst' = 0
    /\ cpc' = "build"
    /\ capResult' = NoCapture
    /\ pc' = "await_capture"

\* wait() hands over every queued event at once.
WaitRecv_Drain ==
    /\ pc = "wait"
    /\ evQ > 0
    /\ evQ' = 0
    /\ lastEv' = evSeq[Len(evSeq)]
    /\ evSeq' = <<>>
    /\ StartCycle
    /\ UNCHANGED <<result, streams, buffer, poisoned, fixedVars, mark>>
    /\ UNCHANGED <<wpc, registered, txAlive, msgQ, emitted>>

\* main.rs 167-181: wait() returns an event; the capture is spawned on the
\* blocking pool and awaited
WaitRecv ==
    /\ pc = "wait"
    /\ evQ > 0
    /\ evQ' = evQ - 1
    /\ lastEv' = Head(evSeq)
    /\ evSeq' = Tail(evSeq)
    /\ StartCycle
    /\ UNCHANGED <<result, streams, buffer, poisoned, fixedVars, mark>>
    /\ UNCHANGED <<wpc, registered, txAlive, msgQ, emitted>>

\* The closed channel is ignored and the cycle goes on.
WaitClosed_Ignore ==
    /\ pc = "wait"
    /\ evQ = 0
    /\ ~txAlive
    /\ started < MaxTriggers
    /\ StartCycle
    /\ UNCHANGED <<result, streams, buffer, poisoned, fixedVars, mark>>
    /\ UNCHANGED <<hkVars, fifoVars>>

\* wait() fails as soon as the sender is gone, queued events or not.
WaitClosed_Early ==
    /\ pc = "wait"
    /\ ~txAlive
    /\ result' = "Err(Hotkey(Channel))"
    /\ pc' = "drop"
    /\ UNCHANGED <<started, transcript, intent, fbLog, executed, lastExec>>
    /\ UNCHANGED <<capVars, hkVars, fixedVars, ghostVars, fifoVars>>

\* main.rs 167, hotkey.rs 60-62: the queue is empty and the sender is gone:
\* wait() fails with Channel and `?` returns it from run()
WaitClosed ==
    /\ pc = "wait"
    /\ evQ = 0
    /\ ~txAlive
    /\ result' = "Err(Hotkey(Channel))"
    /\ pc' = "drop"
    /\ UNCHANGED <<started, transcript, intent, fbLog, executed, lastExec>>
    /\ UNCHANGED <<capVars, hkVars, fixedVars, ghostVars, fifoVars>>

\* The capture is spawned but not awaited.
AwaitCapture_NoAwait ==
    /\ pc = "await_capture"
    /\ pc' = "transcribe"
    /\ UNCHANGED <<result, started, transcript, intent, fbLog, executed, lastExec>>
    /\ UNCHANGED <<capVars, hkVars, fixedVars, ghostVars, fifoVars>>

\* main.rs 180-181: the spawned capture has finished; `??` returns its error
AwaitCapture ==
    /\ pc = "await_capture"
    /\ cpc = "done"
    /\ IF capResult.ok
       THEN /\ pc' = "transcribe"
            /\ UNCHANGED result
       ELSE /\ result' = "Err(Audio)"
            /\ pc' = "drop"
    /\ UNCHANGED <<started, transcript, intent, fbLog, executed, lastExec>>
    /\ UNCHANGED <<capVars, hkVars, fixedVars, ghostVars, fifoVars>>

\* A blank transcript ends the cycle without a feedback call.
TranscribeDone_Silent ==
    /\ pc = "transcribe"
    /\ \/ /\ result' = "Err(Transcription)"
          /\ pc' = "drop"
          /\ UNCHANGED <<transcript, fbLog>>
       \/ \E t \in Transcripts :
            /\ UNCHANGED result
            /\ IF IsBlank(t)
               THEN /\ fbLog' = fbLog
                    /\ transcript' = <<>>
                    /\ pc' = "wait"
               ELSE IF IsHelp(t)
               THEN /\ fbLog' = Append(fbLog, "say(help)")
                    /\ transcript' = <<>>
                    /\ pc' = "wait"
               ELSE /\ fbLog' = fbLog
                    /\ transcript' = t
                    /\ pc' = "classify"
    /\ UNCHANGED <<started, intent, executed, lastExec>>
    /\ UNCHANGED <<capVars, hkVars, fixedVars, ghostVars, fifoVars>>

\* main.rs 186-202: transcribe; `?` returns its error; a blank transcript and
\* the help word end the cycle with a feedback call
TranscribeDone ==
    /\ pc = "transcribe"
    /\ \/ /\ result' = "Err(Transcription)"
          /\ pc' = "drop"
          /\ UNCHANGED <<transcript, fbLog>>
       \/ \E t \in Transcripts :
            /\ UNCHANGED result
            /\ IF IsBlank(t)
               THEN /\ fbLog' = Append(fbLog, "error(I didn't hear anything)")
                    /\ transcript' = <<>>
                    /\ pc' = "wait"
               ELSE IF IsHelp(t)
               THEN /\ fbLog' = Append(fbLog, "say(help)")
                    /\ transcript' = <<>>
                    /\ pc' = "wait"
               ELSE /\ fbLog' = fbLog
                    /\ transcript' = t
                    /\ pc' = "classify"
    /\ UNCHANGED <<started, intent, executed, lastExec>>
    /\ UNCHANGED <<capVars, hkVars, fixedVars, ghostVars, fifoVars>>

\* The classification error is returned with `?`.
ClassifyDone_Propagate ==
    /\ pc = "classify"
    /\ \E reply \in PipelineReplies :
         LET r == infer_intent(transcript, reply) IN
         IF r.ok
         THEN /\ intent' = r.intent
              /\ pc' = "execute"
              /\ UNCHANGED result
         ELSE /\ result' = "Err(Intent)"
              /\ pc' = "drop"
              /\ UNCHANGED intent
    /\ UNCHANGED <<started, transcript, executed, fbLog, lastExec>>
    /\ UNCHANGED <<capVars, hkVars, fixedVars, ghostVars, fifoVars>>

\* A reply whose target failed validation is handed to the executor.
ClassifyDone_Unvalidated ==
    /\ pc = "classify"
    /\ \E reply \in PipelineReplies :
         LET r == infer_intent(transcript, reply) IN
         IF r.ok \/ r.err = "UnknownTarget"
         THEN /\ intent' = IF r.ok THEN r.intent ELSE FromRaw(reply.raw)
              /\ pc' = "execute"
              /\ UNCHANGED <<fbLog, transcript>>
         ELSE /\ fbLog' = Append(fbLog, "error(Intent failed)")
              /\ pc' = "wait"
              /\ transcript' = <<>>
              /\ UNCHANGED intent
    /\ UNCHANGED <<result, started, executed, lastExec>>
    /\ UNCHANGED <<capVars, hkVars, fixedVars, ghostVars, fifoVars>>

\* main.rs 205-212: infer_intent; an error is reported and the loop goes on
ClassifyDone ==
    /\ pc = "classify"
    /\ \E reply \in PipelineReplies :
         LET r == infer_intent(transcript, reply) IN
         IF r.ok
         THEN /\ intent' = r.intent
              /\ pc' = "execute"
              /\ UNCHANGED <<fbLog, transcript>>
         ELSE /\ fbLog' = Append(fbLog, "error(Intent failed)")
              /\ pc' = "wait"
              /\ transcript' = <<>>
              /\ UNCHANGED intent
    /\ UNCHANGED <<result, started, executed, lastExec>>
    /\ UNCHANGED <<capVars, hkVars, fixedVars, ghostVars, fifoVars>>

\* main.rs 362-389: the feedback call handle_intent makes for a result
FeedbackFor(res) ==
    CASE res = "Ok(Action)"         -> "success()"
      [] res = "Ok(Answer)"         -> "say(response)"
      [] res = "Err(UnknownIntent)" -> "error(I don't know how to do that)"
      [] OTHER                      -> "error(Command failed)"

\* The executor's error is returned from run() with `?`.
HandleIntent_Propagate ==
    /\ pc = "execute"
    /\ \E osOk \in BOOLEAN :
         LET res == execute(intent, osOk) IN
         /\ executed' = executed + 1
         /\ lastExec' = res
         /\ IF res \in {"Ok(Action)", "Ok(Answer)"}
            THEN /\ fbLog' = Append(fbLog, FeedbackFor(res))
                 /\ pc' = "wait"
                 /\ UNCHANGED result
            ELSE /\ result' = "Err(Execution)"
                 /\ pc' = "drop"
                 /\ UNCHANGED fbLog
    /\ transcript' = <<>>
    /\ intent' = NoIntent
    /\ UNCHANGED started
    /\ UNCHANGED <<capVars, hkVars, fixedVars, ghostVars, fifoVars>>

\* main.rs 215, 362-389: handle_intent
HandleIntent ==
    /\ pc = "execute"
    /\ \E osOk \in BOOLEAN :
         /\ executed' = executed + 1
         /\ lastExec' = execute(intent, osOk)
         /\ fbLog' = Append(fbLog, FeedbackFor(execute(intent, osOk)))
    /\ transcript' = <<>>
    /\ intent' = NoIntent
    /\ pc' = "wait"
    /\ UNCHANGED <<result, started>>
    /\ UNCHANGED <<capVars, hkVars, fixedVars, ghostVars, fifoVars>>

\* hotkey.rs 66-69: run() returns, its locals are dropped, the listener
\* first: the quit message is posted to the worker thread. PostThreadMessageW
\* fails when the thread is gone, and may fail while it lives (its queue is
\* full); `let _ =` discards the outcome
HotkeyDrop ==
    /\ pc = "drop"
    /\ \E posted \in BOOLEAN :
         msgQ' = IF posted /\ wpc # "exited" /\ thread_id = WorkerTid
                 THEN Append(msgQ, WM_QUIT) ELSE msgQ
    /\ pc' = "join"
    /\ UNCHANGED <<result, started, transcript, intent, fbLog, executed, lastExec>>
    /\ UNCHANGED <<wpc, registered, txAlive, evQ, emitted>>
    /\ UNCHANGED <<capVars, fixedVars, ghostVars, fifoVars>>

\* The handle is dropped without joining the worker.
HotkeyJoin_NoJoin ==
    /\ pc = "join"
    /\ evQ' = 0
    /\ evSeq' = <<>>
    /\ pc' = "returned"
    /\ UNCHANGED <<result, started, transcript, intent, fbLog, executed, lastExec>>
    /\ UNCHANGED <<wpc, registered, txAlive, msgQ, emitted, lastEv>>
    /\ UNCHANGED <<capVars, fixedVars, ghostVars>>

\* hotkey.rs 70-73: join the worker; then the receiver goes with the handle
\* and run() has returned
HotkeyJoin ==
    /\ pc = "join"
    /\ wpc = "exited"
    /\ evQ' = 0
    /\ evSeq' = <<>>
    /\ pc' = "returned"
    /\ UNCHANGED <<result, started, transcript, intent, fbLog, executed, lastExec>>
    /\ UNCHANGED <<wpc, registered, txAlive, msgQ, emitted, lastEv>>
    /\ UNCHANGED <<capVars, fixedVars, ghostVars>>

Orchestrator ==
    \/ WaitRecv
    \/ WaitClosed
    \/ AwaitCapture
    \/ TranscribeDone
    \/ ClassifyDone
    \/ HandleIntent
    \/ HotkeyDrop
    \/ HotkeyJoin

----------------------------------------------------------------------------

Next ==
    \/ WaitRecv
    \/ WaitClosed
    \/ AwaitCapture
    \/ TranscribeDone
    \/ ClassifyDone
    \/ HandleIntent
    \/ HotkeyDrop
    \/ HotkeyJoin
    \/ CaptureBuild
    \/ CapturePlay
    \/ AudioCallback
    \/ CallbackPanic
    \/ CaptureStop
    \/ CaptureDrain
    \/ WorkerGetMessage
    \/ WorkerGetMessageFails
    \/ WorkerUnregister
    \/ WorkerExit
    \/ \E msg \in Messages : EnvPost(msg)

Spec == Init /\ [][Next]_vars

\* The environment of the fair specification: the same postings, with
\* tighter bounds on what it leaves pending and on the presses it makes.
\* One message that is not the trigger is enough there: the loop treats
\* them all alike
LiveMessages == Messages \ {[message |-> "WM_NULL", wParam |-> hotkey_id]}

LiveEnvPost(msg) ==
    /\ Len(msgQ) < LiveMsgs
    /\ Matches(msg) => emitted + Count(msgQ, WM_HOTKEY) < LiveTriggers
    /\ EnvPost(msg)

FairNext ==
    \/ Orchestrator
    \/ CaptureTask
    \/ AudioCallback
    \/ CallbackPanic
    \/ Worker
    \/ WorkerGetMessageFails
    \/ \E msg \in LiveMessages : LiveEnvPost(msg)

\* The runtime schedules the orchestrator, the blocking pool runs the capture
\* task and the OS runs the worker thread; the environment, the audio
\* callbacks and a failing message retrieval owe nothing.
FairSpec ==
    /\ Init
    /\ [][FairNext]_vars
    /\ WF_vars(Orchestrator)
    /\ WF_vars(CaptureTask)
    /\ WF_vars(Worker)

----------------------------------------------------------------------------
(* Construction of the listener (hotkey.rs 39-58, 80-99)                   *)

\* Chord strings tried: the default; one with spaces, capitals and a function
\* key; two keys; modifiers only; an unknown token before and after the key;
\* an empty token; the empty string; a function key that does not exist.
Chords ==
    { default_key,
      <<"C", "t", "r", "l", " ", "+", " ", "F", "1", "3">>,
      <<" ", "a", "+", "b", " ">>,
      <<"c", "t", "r", "l", "+", "a", "l", "t">>,
      <<"c", "t", "r", "l", "+", "h", "y", "p", "e", "r", "+", "b">>,
      <<"b", "+", "h", "y", "p", "e", "r">>,
      <<"c", "t", "r", "l", "+", "+", "b">>,
      <<>>,
      <<"s", "h", "i", "f", "t", "+", "f", "2", "5">> }

\* No RegisterHotKey call has been made
NoCall == [id |-> 0, flags |-> {}, vk |-> NoKey]

ReadyNone     == [t |-> "none", thread_id |-> None]
ReadyEmpty    == [t |-> "empty", thread_id |-> None]
ReadyOk(tid)  == [t |-> "Ok", thread_id |-> tid]
ReadyErr      == [t |-> "Err(Register)", thread_id |-> None]
ReadyClosed   == [t |-> "closed", thread_id |-> None]
ReadyTaken    == [t |-> "taken", thread_id |-> None]

\* hotkey.rs 40-47: parse the chord; on success draw the identifier, make the
\* two channels and spawn the worker; main.rs 156: `?` returns a parse error
NewParse ==
    /\ pc = "new"
    /\ IF parse_hotkey(chord).ok
       THEN /\ wpc' = "register"
            /\ txAlive' = TRUE
            /\ ready' = ReadyEmpty
            /\ pc' = "new_recv"
            /\ UNCHANGED <<newResult, result>>
       ELSE /\ newResult' = "Err(Parse)"
            /\ result' = "Err(Hotkey(Parse))"
            /\ pc' = "returned"
            /\ UNCHANGED <<wpc, txAlive, ready>>
    /\ UNCHANGED <<started, transcript, intent, fbLog, executed, lastExec>>
    /\ UNCHANGED <<registered, msgQ, evQ, emitted, chord, thread_id, regCall>>
    /\ UNCHANGED <<capVars, sample_format, attempt, pureVars, manualVars, audioVars, sessionVars, ghostVars,
                   fifoVars>>

\* hotkey.rs 82-99: the worker calls RegisterHotKey and reports on the
\* one-shot channel: the error, after which it returns, or its thread id
WorkerRegister ==
    /\ wpc = "register"
    /\ regCall' = RegisterArgs(hotkey_id, chord)
    /\ \E ok \in BOOLEAN :
         IF ok
         THEN /\ registered' = TRUE
              /\ ready' = ReadyOk(WorkerTid)
              /\ wpc' = "loop"
         ELSE /\ ready' = ReadyErr
              /\ wpc' = "exiting"
              /\ UNCHANGED registered
    /\ UNCHANGED <<txAlive, msgQ, evQ, emitted, chord, newResult, thread_id>>
    /\ UNCHANGED <<orchVars, capVars, sample_format, attempt, pureVars, manualVars, audioVars, sessionVars,
                   ghostVars, fifoVars>>

\* The worker thread dies before it has called RegisterHotKey or reported:
\* its ends of both channels are dropped
WorkerPanic ==
    /\ wpc = "register"
    /\ ready' = ReadyClosed
    /\ txAlive' = FALSE
    /\ wpc' = "exited"
    /\ UNCHANGED <<registered, msgQ, evQ, emitted, chord, newResult, thread_id,
                   regCall>>
    /\ UNCHANGED <<orchVars, capVars, sample_format, attempt, pureVars, manualVars, audioVars, sessionVars,
                   ghostVars, fifoVars>>

\* The constructor takes a reported registration error for a success.
NewRecvReady_IgnoreError ==
    /\ pc = "new_recv"
    /\ ready.t \in {"Ok", "Err(Register)", "closed"}
    /\ IF ready.t = "closed"
       THEN /\ newResult' = "Err(ThreadInit)"
            /\ result' = "Err(Hotkey(ThreadInit))"
            /\ pc' = "returned"
            /\ UNCHANGED thread_id
       ELSE /\ thread_id' = ready.thread_id
            /\ newResult' = "Ok"
            /\ pc' = "wait"
            /\ UNCHANGED result
    /\ ready' = IF ready.t = "closed" THEN ready ELSE ReadyTaken
    /\ UNCHANGED <<started, transcript, intent, fbLog, executed, lastExec>>
    /\ UNCHANGED <<hkVars, chord, regCall>>
    /\ UNCHANGED <<capVars, sample_format, attempt, pureVars, manualVars, audioVars, sessionVars, ghostVars,
                   fifoVars>>

\* hotkey.rs 49-57: ready_rx.recv() returns what the worker reported, or
\* fails because the worker's sender is gone; main.rs 156: `?`
NewRecvReady ==
    /\ pc = "new_recv"
    /\ ready.t \in {"Ok", "Err(Register)", "closed"}
    /\ CASE ready.t = "Ok" ->
              /\ thread_id' = ready.thread_id
              /\ newResult' = "Ok"
              /\ pc' = "wait"
              /\ UNCHANGED result
         [] ready.t = "Err(Register)" ->
              /\ newResult' = "Err(Register)"
              /\ result' = "Err(Hotkey(Register))"
              /\ pc' = "returned"
              /\ UNCHANGED thread_id
         [] OTHER ->
              /\ newResult' = "Err(ThreadInit)"
              /\ result' = "Err(Hotkey(ThreadInit))"
              /\ pc' = "returned"
              /\ UNCHANGED thread_id
    /\ ready' = IF ready.t = "closed" THEN ready ELSE ReadyTaken
    /\ UNCHANGED <<started, transcript, intent, fbLog, executed, lastExec>>
    /\ UNCHANGED <<hkVars, chord, regCall>>
    /\ UNCHANGED <<capVars, sample_format, attempt, pureVars, manualVars, audioVars, sessionVars, ghostVars,
                   fifoVars>>

\* main.rs 163-237 seen from the bridge: wait() returns an event and the
\* cycle it starts either ends back in wait() or returns an error from run()
Cycle ==
    /\ pc = "wait"
    /\ evQ > 0
    /\ evQ' = evQ - 1
    /\ lastEv' = Head(evSeq)
    /\ evSeq' = Tail(evSeq)
    /\ started' = started + 1
    /\ \/ UNCHANGED <<pc, result>>
       \/ \E e \in {"Err(Audio)", "Err(Transcription)"} :
            /\ result' = e
            /\ pc' = "drop"
    /\ UNCHANGED <<transcript, intent, fbLog, executed, lastExec>>
    /\ UNCHANGED <<wpc, registered, txAlive, msgQ, emitted>>
    /\ UNCHANGED <<capVars, fixedVars, ghostVars>>

\* Before HotkeyListener::new: no thread, no channel, no registration
BridgeInit ==
    /\ pc = "new"
    /\ result = "running"
    /\ started = 0
    /\ transcript = <<>>
    /\ intent = NoIntent
    /\ fbLog = <<>>
    /\ executed = 0
    /\ lastExec = None
    /\ cpc = "idle"
    /\ capResult = NoCapture
    /\ streams = 0
    /\ buffer = <<>>
    /\ poisoned = FALSE
    /\ sample_format = "F32"
    /\ attempt = 0
    /\ wpc = "unspawned"
    /\ registered = FALSE
    /\ txAlive = FALSE
    /\ msgQ = <<>>
    /\ evQ = 0
    /\ emitted = 0
    /\ burst = 0
    /\ mark = 0
    /\ evSeq = <<>>
    /\ lastEv = 0
    /\ chord \in Chords
    /\ newResult = "pending"
    /\ ready = ReadyNone
    /\ thread_id = None
    /\ regCall = NoCall
    /\ iInput = NoInput
    /\ iResult = NoResult
    /\ AudioIdle
    /\ SessionIdle
    /\ stdin = <<>>
    /\ eof = FALSE
    /\ confirmed = 0
    /\ manualEvents = 0

BridgeNext ==
    \/ NewParse
    \/ WorkerRegister
    \/ WorkerPanic
    \/ NewRecvReady
    \/ WorkerGetMessage
    \/ WorkerGetMessageFails
    \/ WorkerUnregister
    \/ WorkerExit
    \/ \E msg \in Messages : EnvPost(msg)
    \/ Cycle
    \/ WaitClosed
    \/ HotkeyDrop
    \/ HotkeyJoin

\* The listener from its construction to its drop, the cycles abridged
BridgeSpec == BridgeInit /\ [][BridgeNext]_vars

----------------------------------------------------------------------------
(* The manual trigger of platforms without OS hotkeys (hotkey.rs 230-269)  *)

\* What the user can type: just Enter, a word and Enter, bytes that are not
\* valid UTF-8 and Enter
Lines == {"", "go", "invalid"}

\* The user enters a line
UserLine ==
    /\ pc = "wait"
    /\ ~eof
    /\ Len(stdin) + confirmed < MaxLines
    /\ \E line \in Lines : stdin' = Append(stdin, line)
    /\ UNCHANGED <<eof, confirmed, manualEvents>>
    /\ UNCHANGED <<orchVars, capVars, hkVars, sample_format, attempt, bridgeVars,
                   pureVars, audioVars, sessionVars, ghostVars, fifoVars>>

\* Standard input reaches its end: the terminal is closed, or the input was
\* a file or a pipe and it is exhausted
UserCloses ==
    /\ pc = "wait"
    /\ ~eof
    /\ eof' = TRUE
    /\ UNCHANGED <<stdin, confirmed, manualEvents>>
    /\ UNCHANGED <<orchVars, capVars, hkVars, sample_format, attempt, bridgeVars,
                   pureVars, audioVars, sessionVars, ghostVars, fifoVars>>

\* hotkey.rs 245-252: wait() prints the prompt and calls read_line, which
\* blocks until a line or the end of input is there; a line that is not
\* UTF-8 is an error (Interrupt), which `?` returns from run() (main.rs 167);
\* at the end of input read_line returns Ok(0); every Ok gives Ok(()), and
\* the caller comes back for the next wait()
ManualWait ==
    /\ pc = "wait"
    /\ manualEvents < MaxWaits
    /\ stdin # <<>> \/ eof
    /\ IF stdin # <<>>
       THEN /\ stdin' = Tail(stdin)
            /\ confirmed' = confirmed + 1
            /\ IF Head(stdin) = "invalid"
               THEN /\ result' = "Err(Hotkey(Interrupt))"
                    /\ pc' = "returned"
                    /\ UNCHANGED manualEvents
               ELSE /\ manualEvents' = manualEvents + 1
                    /\ UNCHANGED <<pc, result>>
       ELSE /\ manualEvents' = manualEvents + 1
            /\ UNCHANGED <<stdin, confirmed, pc, result>>
    /\ UNCHANGED eof
    /\ UNCHANGED <<started, transcript, intent, fbLog, executed, lastExec>>
    /\ UNCHANGED <<capVars, hkVars, sample_format, attempt, bridgeVars, pureVars, audioVars, sessionVars,
                   ghostVars, fifoVars>>

\* hotkey.rs 238-243: new() keeps the label and always succeeds; there is no
\* worker, no channel and no registration
ManualInit ==
    /\ pc = "wait"
    /\ result = "running"
    /\ started = 0
    /\ transcript = <<>>
    /\ intent = NoIntent
    /\ fbLog = <<>>
    /\ executed = 0
    /\ lastExec = None
    /\ cpc = "idle"
    /\ capResult = NoCapture
    /\ streams = 0
    /\ buffer = <<>>
    /\ poisoned = FALSE
    /\ sample_format = "F32"
    /\ attempt = 0
    /\ wpc = "unspawned"
    /\ registered = FALSE
    /\ txAlive = FALSE
    /\ msgQ = <<>>
    /\ evQ = 0
    /\ emitted = 0
    /\ burst = 0
    /\ mark = 0
    /\ evSeq = <<>>
    /\ lastEv = 0
    /\ chord = default_key
    /\ newResult = "Ok"
    /\ ready = ReadyNone
    /\ thread_id = None
    /\ regCall = NoCall
    /\ iInput = NoInput
    /\ iResult = NoResult
    /\ AudioIdle
    /\ SessionIdle
    /\ stdin = <<>>
    /\ eof = FALSE
    /\ confirmed = 0
    /\ manualEvents = 0

ManualNext == UserLine \/ UserCloses \/ ManualWait

ManualSpec == ManualInit /\ [][ManualNext]_vars

----------------------------------------------------------------------------
(* infer_intent on its own (intent.rs 25-65)                               *)

\* The empty transcript, a blank one and one with words
IntentTranscripts == {<<>>, <<" ", "\t">>, <<"o", "p", "e", "n">>}

\* The transcript and the classifier's reply are given; nothing else runs
IntentInit ==
    /\ pc = "classify"
    /\ result = "running"
    /\ started = 0
    /\ transcript = <<>>
    /\ intent = NoIntent
    /\ fbLog = <<>>
    /\ executed = 0
    /\ lastExec = None
    /\ cpc = "idle"
    /\ capResult = NoCapture
    /\ streams = 0
    /\ buffer = <<>>
    /\ poisoned = FALSE
    /\ sample_format = "F32"
    /\ attempt = 0
    /\ wpc = "loop"
    /\ registered = TRUE
    /\ txAlive = TRUE
    /\ msgQ = <<>>
    /\ evQ = 0
    /\ emitted = 0
    /\ burst = 0
    /\ mark = 0
    /\ evSeq = <<>>
    /\ lastEv = 0
    /\ chord = default_key
    /\ newResult = "Ok"
    /\ ready = ReadyTaken
    /\ thread_id = WorkerTid
    /\ regCall = RegisterArgs(hotkey_id, default_key)
    /\ iInput \in [transcription : IntentTranscripts, reply : Replies]
    /\ iResult = NoResult
    /\ AudioIdle
    /\ SessionIdle
    /\ stdin = <<>>
    /\ eof = FALSE
    /\ confirmed = 0
    /\ manualEvents = 0

\* main.rs 205: the call of infer_intent
InferIntent ==
    /\ iResult = NoResult
    /\ iResult' = infer_intent(iInput.transcription, iInput.reply)
    /\ UNCHANGED iInput
    /\ UNCHANGED <<orchVars, capVars, hkVars, sample_format, attempt, bridgeVars,
                   manualVars, audioVars, sessionVars, ghostVars, fifoVars>>

IntentNext == InferIntent

IntentSpec == IntentInit /\ [][IntentNext]_vars

TypeOK ==
    /\ pc \in {"new", "new_recv", "wait", "await_capture", "transcribe",
              "classify", "execute"} \cup Returning
    /\ started \in 0..MaxTriggers
    /\ evQ \in 0..MaxTriggers
    /\ emitted \in 0..MaxTriggers
    /\ streams \in 0..1
    /\ wpc \in {"unspawned", "register", "loop", "unregister", "exiting",
               "exited"}

----------------------------------------------------------------------------
(* The audio functions on their own (audio.rs)                             *)
(* Rates are in Hz and samples are i16 values.  The f64 positions and the  *)
(* f32 interpolation of resample_linear are computed in exact rational     *)
(* arithmetic: position i * src_rate / dst_rate is kept as a quotient and  *)
(* a remainder over dst_rate.                                              *)

i16_MAX == 32767
i16_MIN == -32768

\* audio.rs 160: the rate capture() resamples to
TargetRate == 16000

\* Integer division of Rust: the quotient is truncated toward zero
TruncDiv(a, b) == IF a >= 0 THEN a \div b ELSE -((-a) \div b)

\* `as i16` of a float: the value is truncated and saturates at the ends
SatI16(x) == IF x > i16_MAX THEN i16_MAX ELSE IF x < i16_MIN THEN i16_MIN ELSE x

\* `as i16` of an i32: the low 16 bits are kept
WrapI16(x) == ((x - i16_MIN) % 65536) + i16_MIN

RECURSIVE Sum(_)
Sum(s) == IF s = <<>> THEN 0 ELSE Head(s) + Sum(Tail(s))

\* slice::chunks_exact: the complete chunks of n elements, in order; the
\* elements left over at the end are not part of any chunk
RECURSIVE chunks_exact(_, _)
chunks_exact(s, n) ==
    IF Len(s) < n
    THEN <<>>
    ELSE <<SubSeq(s, 1, n)>> \o chunks_exact(SubSeq(s, n + 1, Len(s)), n)

\* audio.rs 257-263: each complete chunk of factor samples becomes its average
RECURSIVE Decimate(_, _)
Decimate(chunks, factor) ==
    IF chunks = <<>>
    THEN <<>>
    ELSE <<TruncDiv(Sum(Head(chunks)), factor)>> \o Decimate(Tail(chunks), factor)

\* audio.rs 266: out_len, the float product truncated by `as usize`
OutLen(n, src_rate, dst_rate) ==
    LET scaled == (n * dst_rate) \div src_rate
    IN IF scaled < 1 THEN 1 ELSE scaled

\* The upper sample is read at idx + 1 without the fallback.
Bracket_NoFallback(n, src_rate, dst_rate, i) ==
    LET idx == (i * src_rate) \div dst_rate
    IN [lower |-> idx, upper |-> idx + 1]

\* audio.rs 269-273: the positions (from 0) read for output sample i of n input
\* samples: samples[idx] with idx the floor of i / ratio, and
\* samples.get(idx + 1), for which samples[idx] stands in past the end
Bracket(n, src_rate, dst_rate, i) ==
    LET idx == (i * src_rate) \div dst_rate
    IN [lower |-> idx, upper |-> IF idx + 1 < n THEN idx + 1 ELSE idx]

\* audio.rs 269-275: output sample i (from 0) of the interpolation
Interpolate(samples, src_rate, dst_rate, i) ==
    LET at  == Bracket(Len(samples), src_rate, dst_rate, i)
        rem == (i * src_rate) % dst_rate
        s0  == samples[at.lower + 1]
        s1  == samples[at.upper + 1]
    IN SatI16(TruncDiv(s0 * dst_rate + (s1 - s0) * rem, dst_rate))

\* The block average is rounded down, not truncated toward zero.
resample_linear_FloorAverage(samples, src_rate, dst_rate) ==
    IF src_rate = dst_rate \/ Len(samples) < 2
    THEN samples
    ELSE IF src_rate % dst_rate = 0 /\ src_rate \div dst_rate > 1
    THEN LET factor == src_rate \div dst_rate
         IN [j \in 1..(Len(samples) \div factor) |->
                Sum(SubSeq(samples, (j - 1) * factor + 1, j * factor)) \div factor]
    ELSE [k \in 1..OutLen(Len(samples), src_rate, dst_rate) |->
             Interpolate(samples, src_rate, dst_rate, k - 1)]

\* audio.rs 250-278
resample_linear(samples, src_rate, dst_rate) ==
    IF src_rate = dst_rate \/ Len(samples) < 2
    THEN samples
    ELSE IF src_rate % dst_rate = 0 /\ src_rate \div dst_rate > 1
    THEN Decimate(chunks_exact(samples, src_rate \div dst_rate),
                  src_rate \div dst_rate)
    ELSE [k \in 1..OutLen(Len(samples), src_rate, dst_rate) |->
             Interpolate(samples, src_rate, dst_rate, k - 1)]

\* audio.rs 268-273: the reads of the interpolation loop, one bracket for each
\* output index; the other paths index nothing by position
ResampleReads(samples, src_rate, dst_rate) ==
    IF \/ src_rate = dst_rate
       \/ Len(samples) < 2
       \/ (src_rate % dst_rate = 0 /\ src_rate \div dst_rate > 1)
    THEN <<>>
    ELSE [k \in 1..OutLen(Len(samples), src_rate, dst_rate) |->
             Bracket(Len(samples), src_rate, dst_rate, k - 1)]

\* Indexing a slice past its end panics
ReadsOutside(reads, n) ==
    \E k \in 1..Len(reads) : reads[k].lower >= n \/ reads[k].upper >= n

\* The sample values resample_linear is applied to
SampleValues == {i16_MIN, -3, 100, i16_MAX}

RECURSIVE SeqsUpTo(_, _)
SeqsUpTo(S, n) ==
    IF n = 0
    THEN {<<>>}
    ELSE LET shorter == SeqsUpTo(S, n - 1)
         IN shorter \cup {Append(s, x) : s \in {t \in shorter : Len(t) = n - 1},
                                          x \in S}

\* i16::abs: the absolute value of i16::MIN is not an i16; with overflow
\* checks off the result wraps to i16::MIN
i16_abs(x) == IF x = i16_MIN THEN i16_MIN ELSE IF x < 0 THEN -x ELSE x

\* The u64 accumulator sum_sq is kept as two digits of base Word
Word == 65536

\* audio.rs 243: (sample as i32).saturating_mul(sample as i32) added to sum_sq;
\* the product of two i16 values is at most 2^30 and never saturates
AddSquare(sum_sq, sample) ==
    LET sq == sample * sample
        lo == sum_sq.lo + (sq % Word)
    IN [hi |-> sum_sq.hi + (sq \div Word) + (lo \div Word), lo |-> lo % Word]

\* audio.rs 240-245: the fold over the samples, from (0i16, 0u64)
RECURSIVE FoldPeak(_, _)
FoldPeak(samples, acc) ==
    IF samples = <<>>
    THEN acc
    ELSE LET sample == Head(samples)
             abs    == i16_abs(sample)
             peak   == IF abs > acc.peak THEN abs ELSE acc.peak
         IN FoldPeak(Tail(samples),
                     [peak |-> peak, sum_sq |-> AddSquare(acc.sum_sq, sample)])

\* audio.rs 237-248: peak_rms. With overflow checks on (a debug build)
\* sample.abs() panics for i16::MIN; the rms is the root of sum_sq / len
peak_rms(samples, overflow_checks) ==
    IF overflow_checks /\ \E k \in 1..Len(samples) : samples[k] = i16_MIN
    THEN [f |-> "peak_rms", panic |-> TRUE, peak |-> 0,
          sum_sq |-> [hi |-> 0, lo |-> 0]]
    ELSE LET folded == FoldPeak(samples, [peak |-> 0,
                                          sum_sq |-> [hi |-> 0, lo |-> 0]])
         IN [f |-> "peak_rms", panic |-> FALSE, peak |-> folded.peak,
             sum_sq |-> folded.sum_sq]

\* Device rates resampled to the target rate, and small rate pairs
RatePairs ==
    {[src |-> r, dst |-> TargetRate] :
        r \in {8000, 11025, 16000, 22050, 32000, 44100, 48000}}
    \cup {[src |-> 2, dst |-> 1], [src |-> 3, dst |-> 1], [src |-> 1, dst |-> 2],
          [src |-> 3, dst |-> 2], [src |-> 2, dst |-> 3]}

ResampleInputs ==
    {[f |-> "resample", samples |-> s, src_rate |-> r.src, dst_rate |-> r.dst] :
        s \in SeqsUpTo(SampleValues, MaxSamples), r \in RatePairs}
    \cup {[f |-> "resample", samples |-> <<0, 100, 200, 300, 400, 600>>,
           src_rate |-> 2, dst_rate |-> 1]}

\* A native sample: the value of an i16 or u16 sample, the value of an f32
\* sample in thousandths, or the f32 NaN
Native(v) == [nan |-> FALSE, v |-> v]
F32_NaN == [nan |-> TRUE, v |-> 0]

\* f32::max and f32::min against a bound: NaN gives the bound
Clamp(sample) ==
    IF sample.nan THEN -1000
    ELSE IF sample.v < -1000 THEN -1000
    ELSE IF sample.v > 1000 THEN 1000
    ELSE sample.v

\* The float sample is scaled as it comes.
convert_NoClamp(format, sample) ==
    CASE format = "I16" -> sample.v
      [] format = "U16" -> WrapI16(sample.v - i16_MAX - 1)
      [] format = "F32" ->
           IF sample.nan THEN 0
           ELSE SatI16(TruncDiv(sample.v * i16_MAX, 1000))

\* audio.rs 127-135: the conversion capture() hands to capture_with_type
\* for each supported sample format
convert(format, sample) ==
    CASE format = "I16" -> sample.v
      [] format = "U16" -> WrapI16(sample.v - i16_MAX - 1)
      [] format = "F32" -> SatI16(TruncDiv(Clamp(sample) * i16_MAX, 1000))

\* Native samples of each supported format; the float values are ones whose
\* f32 product with 32767 truncates as the exact product does
NativeSamples(format) ==
    CASE format = "I16" -> {Native(v) : v \in {i16_MIN, -1, 0, 1, i16_MAX}}
      [] format = "U16" -> {Native(v) : v \in {0, 1, 32767, 32768, 65535}}
      [] format = "F32" -> {Native(m) : m \in {-50000, -1500, -1000, -500, -1,
                                              0, 250, 999, 1000, 1500, 50000}}
                           \cup {F32_NaN}

ConvertInputs ==
    {[f |-> "convert", format |-> format, sample |-> s] :
        format \in {"I16"}, s \in NativeSamples("I16")}
    \cup {[f |-> "convert", format |-> format, sample |-> s] :
            format \in {"U16"}, s \in NativeSamples("U16")}
    \cup {[f |-> "convert", format |-> format, sample |-> s] :
            format \in {"F32"}, s \in NativeSamples("F32")}

\* An input device of the host: name() gives its name when readable
Device(id, name, readable) == [id |-> id, name |-> name, readable |-> readable]

\* Two devices of the same name, one that differs in case only, and one
\* whose name cannot be read
DevicePool ==
    {Device(1, "Mic", TRUE), Device(2, "mic", TRUE), Device(3, "Mic", TRUE),
     Device(4, "", FALSE)}

\* No device
NoDevice == 0

\* The host: whether input_devices() works, the devices it yields in order,
\* and the default input device (NoDevice when there is none)
Hosts ==
    [enumerable : BOOLEAN,
     devices : {s \in SeqsUpTo(DevicePool, MaxDevices) :
                   \A i, j \in 1..Len(s) : i # j => s[i] # s[j]},
     default : {NoDevice, 1, 2, 4}]

NewOk(id)   == [f |-> "new", ok |-> TRUE, device |-> id, err |-> ""]
NewErr(err) == [f |-> "new", ok |-> FALSE, device |-> NoDevice, err |-> err]

\* audio.rs 70-78: the first device whose name can be read and equals name
RECURSIVE FindDevice(_, _)
FindDevice(devices, name) ==
    IF devices = <<>>
    THEN NoDevice
    ELSE IF Head(devices).readable /\ Head(devices).name = name
    THEN Head(devices).id
    ELSE FindDevice(Tail(devices), name)

\* When no device has the configured name the default device is used.
AudioCapturer_new_Fallback(device_name, host, configOk) ==
    LET device ==
          IF device_name # None
          THEN IF ~host.enumerable
               THEN NewErr("Devices")
               ELSE IF FindDevice(host.devices, device_name) = NoDevice
               THEN IF host.default = NoDevice
                    THEN NewErr("DeviceNotFound")
                    ELSE NewOk(host.default)
               ELSE NewOk(FindDevice(host.devices, device_name))
          ELSE IF host.default = NoDevice
               THEN NewErr("NoDefaultDevice")
               ELSE NewOk(host.default)
    IN IF device.ok /\ ~configOk THEN NewErr("DefaultConfig") ELSE device

\* audio.rs 66-123: the device is chosen (68-83) and its default input
\* configuration is read (85-87)
AudioCapturer_new(device_name, host, configOk) ==
    LET device ==
          IF device_name # None
          THEN IF ~host.enumerable
               THEN NewErr("Devices")
               ELSE IF FindDevice(host.devices, device_name) = NoDevice
               THEN NewErr("DeviceNotFound")
               ELSE NewOk(FindDevice(host.devices, device_name))
          ELSE IF host.default = NoDevice
               THEN NewErr("NoDefaultDevice")
               ELSE NewOk(host.default)
    IN IF device.ok /\ ~configOk THEN NewErr("DefaultConfig") ELSE device

\* config.rs 32: AudioConfig.device_name
DeviceNames == {None, "Mic", "Line"}

NewInputs ==
    [f : {"new"}, device_name : DeviceNames, host : Hosts, configOk : BOOLEAN]

\* audio.rs 139-141: peak_rms is called on a non-empty capture; the build
\* decides whether arithmetic overflow is checked
MeasureInputs ==
    {[f |-> "peak_rms", samples |-> s, overflow_checks |-> b] :
        s \in SeqsUpTo(SampleValues, MaxSamples) \ {<<>>}, b \in BOOLEAN}

AudioInputs == ResampleInputs \cup ConvertInputs \cup NewInputs \cup MeasureInputs

AudioInit ==
    /\ pc = "await_capture"
    /\ result = "running"
    /\ started = 0
    /\ transcript = <<>>
    /\ intent = NoIntent
    /\ fbLog = <<>>
    /\ executed = 0
    /\ lastExec = None
    /\ cpc = "idle"
    /\ capResult = NoCapture
    /\ streams = 0
    /\ buffer = <<>>
    /\ poisoned = FALSE
    /\ sample_format = "F32"
    /\ attempt = 0
    /\ wpc = "loop"
    /\ registered = TRUE
    /\ txAlive = TRUE
    /\ msgQ = <<>>
    /\ evQ = 0
    /\ emitted = 0
    /\ burst = 0
    /\ mark = 0
    /\ evSeq = <<>>
    /\ lastEv = 0
    /\ PipelineFixed
    /\ SessionIdle
    /\ aInput \in AudioInputs
    /\ aResult = NoAudio

\* audio.rs 160-162: the call of resample_linear
ApplyResample ==
    /\ aResult = NoAudio
    /\ aInput.f = "resample"
    /\ LET reads == ResampleReads(aInput.samples, aInput.src_rate,
                                  aInput.dst_rate)
       IN aResult' =
            IF ReadsOutside(reads, Len(aInput.samples))
            THEN [f |-> "resample", panic |-> TRUE, reads |-> reads,
                  out |-> <<>>]
            ELSE [f |-> "resample", panic |-> FALSE, reads |-> reads,
                  out |-> resample_linear(aInput.samples, aInput.src_rate,
                                          aInput.dst_rate)]
    /\ UNCHANGED aInput
    /\ UNCHANGED <<orchVars, capVars, hkVars, sample_format, attempt, bridgeVars,
                   pureVars, manualVars, sessionVars, ghostVars, fifoVars>>

\* audio.rs 191, 197: the callback converts a native sample
ApplyConvert ==
    /\ aResult = NoAudio
    /\ aInput.f = "convert"
    /\ aResult' = [f |-> "convert", out |-> convert(aInput.format, aInput.sample)]
    /\ UNCHANGED aInput
    /\ UNCHANGED <<orchVars, capVars, hkVars, sample_format, attempt, bridgeVars,
                   pureVars, manualVars, sessionVars, ghostVars, fifoVars>>

\* main.rs 143: the call of AudioCapturer::new
ApplyNew ==
    /\ aResult = NoAudio
    /\ aInput.f = "new"
    /\ aResult' = AudioCapturer_new(aInput.device_name, aInput.host,
                                    aInput.configOk)
    /\ UNCHANGED aInput
    /\ UNCHANGED <<orchVars, capVars, hkVars, sample_format, attempt, bridgeVars,
                   pureVars, manualVars, sessionVars, ghostVars, fifoVars>>

\* audio.rs 141, 150: the call of peak_rms
ApplyPeakRms ==
    /\ aResult = NoAudio
    /\ aInput.f = "peak_rms"
    /\ aResult' = peak_rms(aInput.samples, aInput.overflow_checks)
    /\ UNCHANGED aInput
    /\ UNCHANGED <<orchVars, capVars, hkVars, sample_format, attempt, bridgeVars,
                   pureVars, manualVars, sessionVars, ghostVars, fifoVars>>

AudioNext == ApplyResample \/ ApplyConvert \/ ApplyNew \/ ApplyPeakRms

AudioSpec == AudioInit /\ [][AudioNext]_vars

----------------------------------------------------------------------------
(* One capture session at the grain of the buffer lock (audio.rs 167-216). *)
(* The driver hands each callback a chunk of interleaved native samples.   *)
(* Dropping the stream stops the driver from making further callbacks; a   *)
(* callback that already holds the lock runs to its end, and the drain     *)
(* waits for the lock.                                                     *)

\* The first sample of each frame is kept.
Downmix_FirstChannel(data, ch, format) ==
    IF ch = 1
    THEN [k \in 1..Len(data) |-> convert(format, data[k])]
    ELSE [j \in 1..(Len(data) \div ch) |-> convert(format, data[(j - 1) * ch + 1])]

\* audio.rs 194-201: each complete frame becomes the average of its samples
RECURSIVE FrameAverages(_, _, _)
FrameAverages(frames, ch, format) ==
    IF frames = <<>>
    THEN <<>>
    ELSE <<WrapI16(TruncDiv(Sum([k \in 1..ch |-> convert(format, Head(frames)[k])]),
                            ch))>>
         \o FrameAverages(Tail(frames), ch, format)

\* audio.rs 190-202: what one callback appends for the data it is handed
Downmix(data, ch, format) ==
    IF ch = 1
    THEN [k \in 1..Len(data) |-> convert(format, data[k])]
    ELSE FrameAverages(chunks_exact(data, ch), ch, format)

\* audio.rs 181: self.channels.max(1)
EffectiveChannels == IF channels < 1 THEN 1 ELSE channels

\* The chunks the driver delivers, for each supported format
Deliveries(format) ==
    CASE format = "I16" ->
           {<<Native(-1)>>, <<Native(-1), Native(0)>>,
            <<Native(i16_MAX), Native(i16_MAX), Native(-1)>>}
      [] format = "U16" ->
           {<<Native(0)>>, <<Native(32767), Native(32768)>>,
            <<Native(65535), Native(65535), Native(0)>>}
      [] format = "F32" ->
           {<<Native(1500)>>, <<Native(-1), Native(0)>>,
            <<Native(1000), Native(1000), F32_NaN>>}
      [] OTHER -> {}

\* One entry of the session's log: the data a callback was handed, how the
\* callback ended, and the samples it appended
Delivery(data, outcome, out) == [data |-> data, outcome |-> outcome, out |-> out]

CaptureInit ==
    /\ pc = "await_capture"
    /\ result = "running"
    /\ started = 1
    /\ transcript = <<>>
    /\ intent = NoIntent
    /\ fbLog = <<>>
    /\ executed = 0
    /\ lastExec = None
    /\ cpc = "build"
    /\ capResult = NoCapture
    /\ streams = 0
    /\ buffer = <<>>
    /\ poisoned = FALSE
    /\ sample_format \in SampleFormats
    /\ attempt = 0
    /\ wpc = "loop"
    /\ registered = TRUE
    /\ txAlive = TRUE
    /\ msgQ = <<>>
    /\ evQ = 0
    /\ emitted = 1
    /\ burst = 0
    /\ mark = 0
    /\ evSeq = <<>>
    /\ lastEv = 1
    /\ PipelineFixed
    /\ AudioIdle
    /\ channels \in 0..MaxChannels
    /\ locked = FALSE
    /\ cbpc = "idle"
    /\ chunk = <<>>
    /\ delivered = <<>>

\* audio.rs 188: the driver calls back and the callback asks for the lock;
\* on a poisoned lock the data is skipped
CallbackLock ==
    /\ cpc = "sleep"
    /\ streams > 0
    /\ cbpc = "idle"
    /\ Len(delivered) < MaxCallbacks
    /\ ~locked
    /\ \E data \in Deliveries(sample_format) :
         IF poisoned
         THEN /\ delivered' = Append(delivered, Delivery(data, "lock_failed", <<>>))
              /\ UNCHANGED <<locked, cbpc, chunk>>
         ELSE /\ locked' = TRUE
              /\ cbpc' = "locked"
              /\ chunk' = data
              /\ UNCHANGED delivered
    /\ UNCHANGED <<capVars, channels>>
    /\ UNCHANGED <<orchVars, hkVars, sample_format, attempt, bridgeVars, pureVars,
                   manualVars, audioVars, ghostVars, fifoVars>>

\* audio.rs 190-202: the callback appends and releases the lock
CallbackExtend ==
    /\ cbpc = "locked"
    /\ LET out == Downmix(chunk, EffectiveChannels, sample_format)
       IN /\ buffer' = buffer \o out
          /\ delivered' = Append(delivered, Delivery(chunk, "appended", out))
    /\ locked' = FALSE
    /\ cbpc' = "idle"
    /\ chunk' = <<>>
    /\ UNCHANGED <<cpc, capResult, streams, poisoned, channels>>
    /\ UNCHANGED <<orchVars, hkVars, sample_format, attempt, bridgeVars, pureVars,
                   manualVars, audioVars, ghostVars, fifoVars>>

\* The callback panics while it holds the lock: the guard is dropped during
\* unwinding and the mutex is poisoned
CallbackUnwind ==
    /\ cbpc = "locked"
    /\ poisoned' = TRUE
    /\ delivered' = Append(delivered, Delivery(chunk, "panicked", <<>>))
    /\ locked' = FALSE
    /\ cbpc' = "idle"
    /\ chunk' = <<>>
    /\ UNCHANGED <<cpc, capResult, streams, buffer, channels>>
    /\ UNCHANGED <<orchVars, hkVars, sample_format, attempt, bridgeVars, pureVars,
                   manualVars, audioVars, ghostVars, fifoVars>>

\* The buffer is taken without waiting for the lock.
DrainLock_NoWait ==
    /\ cpc = "drain"
    /\ IF poisoned
       THEN /\ capResult' = CaptureErr("BufferAccess")
            /\ cpc' = "done"
            /\ UNCHANGED locked
       ELSE /\ locked' = TRUE
            /\ cpc' = "take"
            /\ UNCHANGED capResult
    /\ UNCHANGED <<streams, buffer, poisoned>>
    /\ UNCHANGED <<channels, cbpc, chunk, delivered>>
    /\ UNCHANGED <<orchVars, hkVars, sample_format, attempt, bridgeVars, pureVars,
                   manualVars, audioVars, ghostVars, fifoVars>>

\* A poisoned lock is entered all the same.
DrainLock_IgnorePoison ==
    /\ cpc = "drain"
    /\ ~locked
    /\ locked' = TRUE
    /\ cpc' = "take"
    /\ UNCHANGED <<capResult, streams, buffer, poisoned>>
    /\ UNCHANGED <<channels, cbpc, chunk, delivered>>
    /\ UNCHANGED <<orchVars, hkVars, sample_format, attempt, bridgeVars, pureVars,
                   manualVars, audioVars, ghostVars, fifoVars>>

\* audio.rs 214: buffer.lock(); a poisoned lock is a BufferAccess error
DrainLock ==
    /\ cpc = "drain"
    /\ ~locked
    /\ IF poisoned
       THEN /\ capResult' = CaptureErr("BufferAccess")
            /\ cpc' = "done"
            /\ UNCHANGED locked
       ELSE /\ locked' = TRUE
            /\ cpc' = "take"
            /\ UNCHANGED capResult
    /\ UNCHANGED <<streams, buffer, poisoned>>
    /\ UNCHANGED <<channels, cbpc, chunk, delivered>>
    /\ UNCHANGED <<orchVars, hkVars, sample_format, attempt, bridgeVars, pureVars,
                   manualVars, audioVars, ghostVars, fifoVars>>

\* audio.rs 215: the buffer is taken and the lock released
DrainTake ==
    /\ cpc = "take"
    /\ capResult' = CaptureOk(buffer)
    /\ buffer' = <<>>
    /\ locked' = FALSE
    /\ cpc' = "done"
    /\ UNCHANGED <<streams, poisoned>>
    /\ UNCHANGED <<channels, cbpc, chunk, delivered>>
    /\ UNCHANGED <<orchVars, hkVars, sample_format, attempt, bridgeVars, pureVars,
                   manualVars, audioVars, ghostVars, fifoVars>>

CaptureNext ==
    \/ CaptureBuild
    \/ CapturePlay
    \/ CallbackLock
    \/ CallbackExtend
    \/ CallbackUnwind
    \/ CaptureStop
    \/ DrainLock
    \/ DrainTake

CaptureSpec == CaptureInit /\ [][CaptureNext]_vars

----------------------------------------------------------------------------
(* Startup: the readiness probe and the construction of the parts          *)

\* main.rs 287: the number of probes wait_for_intent_ready makes at most
attempts == 240

StartupInit ==
    /\ pc = "probe"
    /\ attempt = 1
    /\ result = "running"
    /\ started = 0
    /\ transcript = <<>>
    /\ intent = NoIntent
    /\ fbLog = <<>>
    /\ executed = 0
    /\ lastExec = None
    /\ cpc = "idle"
    /\ capResult = NoCapture
    /\ streams = 0
    /\ buffer = <<>>
    /\ poisoned = FALSE
    /\ sample_format = "F32"
    /\ wpc = "unspawned"
    /\ registered = FALSE
    /\ txAlive = FALSE
    /\ msgQ = <<>>
    /\ evQ = 0
    /\ emitted = 0
    /\ burst = 0
    /\ mark = 0
    /\ evSeq = <<>>
    /\ lastEv = 0
    /\ chord \in Chords
    /\ newResult = "pending"
    /\ ready = ReadyNone
    /\ thread_id = None
    /\ regCall = NoCall
    /\ iInput = NoInput
    /\ iResult = NoResult
    /\ AudioIdle
    /\ SessionIdle
    /\ stdin = <<>>
    /\ eof = FALSE
    /\ confirmed = 0
    /\ manualEvents = 0

\* main.rs 290, intent.rs 67-82: one probe, wait_for_ready, returns Ok or Err
\* (the client has a request timeout, intent.rs 17)
ProbeReturns ==
    /\ pc = "probe"
    /\ \E ok \in BOOLEAN : pc' = IF ok THEN "probe_ok" ELSE "probe_err"
    /\ UNCHANGED <<result, started, transcript, intent, fbLog, executed, lastExec>>
    /\ UNCHANGED <<capVars, hkVars, fixedVars, ghostVars, fifoVars>>

\* main.rs 291, 125: Ok(()) => return Ok(()); run() goes on past the probe
ProbeOk ==
    /\ pc = "probe_ok"
    /\ pc' = "build"
    /\ attempt' = 0
    /\ UNCHANGED <<result, started, transcript, intent, fbLog, executed, lastExec>>
    /\ UNCHANGED <<capVars, hkVars, sample_format, bridgeVars, pureVars,
                   manualVars, audioVars, sessionVars, ghostVars, fifoVars>>

\* After the last failed probe startup goes on as if it had succeeded.
ProbeErr_Proceeds ==
    /\ pc = "probe_err"
    /\ IF attempt = attempts
       THEN /\ pc' = "build"
            /\ attempt' = 0
       ELSE /\ pc' = "probe"
            /\ attempt' = attempt + 1
    /\ UNCHANGED <<result, started, transcript, intent, fbLog, executed, lastExec>>
    /\ UNCHANGED <<capVars, hkVars, sample_format, bridgeVars, pureVars,
                   manualVars, audioVars, sessionVars, ghostVars, fifoVars>>

\* main.rs 292-301, 125: the last failure is returned, and `?` returns it from
\* run(); an earlier one is printed, and the next probe follows a 1 s sleep
ProbeErr ==
    /\ pc = "probe_err"
    /\ IF attempt = attempts
       THEN /\ result' = "Err(Readiness)"
            /\ pc' = "returned"
            /\ UNCHANGED attempt
       ELSE /\ pc' = "probe"
            /\ attempt' = attempt + 1
            /\ UNCHANGED result
    /\ UNCHANGED <<started, transcript, intent, fbLog, executed, lastExec>>
    /\ UNCHANGED <<capVars, hkVars, sample_format, bridgeVars, pureVars,
                   manualVars, audioVars, sessionVars, ghostVars, fifoVars>>

\* main.rs 126-155: with test phrases run() classifies them and returns Ok;
\* otherwise it builds the capturer and the transcriber, `?` returning their
\* errors, then the executor and the feedback player, and goes on to
\* HotkeyListener::new
BuildParts ==
    /\ pc = "build"
    /\ \E outcome \in {"built", "Ok(test_phrases)", "Err(Audio)",
                       "Err(Transcription)"} :
         IF outcome = "built"
         THEN /\ pc' = "new"
              /\ UNCHANGED result
         ELSE /\ pc' = "returned"
              /\ result' = outcome
    /\ UNCHANGED <<started, transcript, intent, fbLog, executed, lastExec>>
    /\ UNCHANGED <<capVars, hkVars, fixedVars, ghostVars, fifoVars>>

Probe == ProbeReturns \/ ProbeOk \/ ProbeErr

StartupNext ==
    \/ ProbeReturns
    \/ ProbeOk
    \/ ProbeErr
    \/ BuildParts
    \/ BridgeNext

\* run() from the readiness probe on, the cycles abridged
StartupSpec == StartupInit /\ [][StartupNext]_vars

\* Every probe returns within the client's timeout and every sleep ends, and
\* the task running run() is scheduled
FairStartupSpec == StartupSpec /\ WF_vars(Probe)

----------------------------------------------------------------------------
(* Validation and execution against one configuration                      *)

\* Mapping tables and switch settings: no switch on, one on, all on
Configs ==
    [files        : SUBSET {"resume", "notes"},
     applications : SUBSET {"chrome"},
     system       : {s \in [SystemActionNames -> BOOLEAN] :
                        \/ Cardinality(enabled_actions(s)) <= 1
                        \/ enabled_actions(s) = SystemActionNames}]

ExecTargets ==
    SystemActionNames \cup {"volume_set_40", "resume", "notes", "chrome", "format"}

\* Confidences, in hundredths
ExecConfidences == {0, 45, 100}

\* intent.rs 172-178: the intents the classifier's reply can decode to
ExecIntents ==
    [kind : {"OpenFile", "OpenApp", "System"}, target : ExecTargets,
     response : {None}, confidence : ExecConfidences]
    \cup [kind : {"Answer"}, target : {None}, response : {"5"},
          confidence : ExecConfidences]
    \cup {Unknown(c) : c \in ExecConfidences}

\* A decoded intent, the configuration, and whether the OS call will work
ExecInit ==
    /\ pc = "classify"
    /\ result = "running"
    /\ started = 0
    /\ transcript = <<>>
    /\ intent = NoIntent
    /\ fbLog = <<>>
    /\ executed = 0
    /\ lastExec = None
    /\ cpc = "idle"
    /\ capResult = NoCapture
    /\ streams = 0
    /\ buffer = <<>>
    /\ poisoned = FALSE
    /\ sample_format = "F32"
    /\ attempt = 0
    /\ wpc = "loop"
    /\ registered = TRUE
    /\ txAlive = TRUE
    /\ msgQ = <<>>
    /\ evQ = 0
    /\ emitted = 0
    /\ burst = 0
    /\ mark = 0
    /\ evSeq = <<>>
    /\ lastEv = 0
    /\ chord = default_key
    /\ newResult = "Ok"
    /\ ready = ReadyTaken
    /\ thread_id = WorkerTid
    /\ regCall = RegisterArgs(hotkey_id, default_key)
    /\ iInput \in [intent : ExecIntents, config : Configs, osOk : BOOLEAN]
    /\ iResult = NoResult
    /\ AudioIdle
    /\ SessionIdle
    /\ stdin = <<>>
    /\ eof = FALSE
    /\ confirmed = 0
    /\ manualEvents = 0

\* intent.rs 61-63, main.rs 205-212: the decoded intent is validated against
\* the configuration; a failure ends the cycle with the error feedback
ValidateTarget ==
    /\ pc = "classify"
    /\ iResult = NoResult
    /\ IF validate_target(iInput.intent, iInput.config)
       THEN /\ iResult' = [ok |-> TRUE, intent |-> iInput.intent, err |-> "",
                           sent |-> TRUE]
            /\ intent' = iInput.intent
            /\ pc' = "execute"
            /\ UNCHANGED fbLog
       ELSE /\ iResult' = [ok |-> FALSE, intent |-> NoIntent,
                           err |-> "UnknownTarget", sent |-> TRUE]
            /\ fbLog' = Append(fbLog, "error(Intent failed)")
            /\ pc' = "wait"
            /\ UNCHANGED intent
    /\ UNCHANGED <<result, started, transcript, executed, lastExec, iInput>>
    /\ UNCHANGED <<capVars, hkVars, sample_format, attempt, bridgeVars,
                   manualVars, audioVars, sessionVars, ghostVars, fifoVars>>

\* An intent of confidence below one half is not executed.
ExecuteValidated_Gated ==
    /\ pc = "execute"
    /\ IF intent.confidence < 50
       THEN /\ UNCHANGED <<executed, lastExec>>
            /\ fbLog' = Append(fbLog, "error(I don't know how to do that)")
       ELSE /\ executed' = executed + 1
            /\ lastExec' = execute_with(intent, iInput.config, iInput.osOk)
            /\ fbLog' = Append(fbLog, FeedbackFor(lastExec'))
    /\ intent' = NoIntent
    /\ pc' = "wait"
    /\ UNCHANGED <<result, started, transcript>>
    /\ UNCHANGED <<capVars, hkVars, fixedVars, ghostVars, fifoVars>>

\* main.rs 215, 362-389: handle_intent executes the validated intent against
\* the same configuration and makes the feedback call for the result
ExecuteValidated ==
    /\ pc = "execute"
    /\ executed' = executed + 1
    /\ lastExec' = execute_with(intent, iInput.config, iInput.osOk)
    /\ fbLog' = Append(fbLog, FeedbackFor(lastExec'))
    /\ intent' = NoIntent
    /\ pc' = "wait"
    /\ UNCHANGED <<result, started, transcript>>
    /\ UNCHANGED <<capVars, hkVars, fixedVars, ghostVars, fifoVars>>

ExecutorNext == ValidateTarget \/ ExecuteValidated

ExecutorSpec == ExecInit /\ [][ExecutorNext]_vars

----------------------------------------------------------------------------
(* Stage failure isolation                                                 *)

\* C1: when capture() fails during a cycle, the orchestrator issues a
\* failure feedback call and goes back to waiting for the next hotkey event;
\* run() does not return.
C1_CaptureFailureContinues ==
    [][(pc = "await_capture" /\ cpc = "done" /\ ~capResult.ok /\ pc' # pc)
         => /\ pc' = "wait"
            /\ Len(fbLog') = Len(fbLog) + 1
            /\ result' = "running"]_vars

\* C2: when the transcription stage fails, the failure is caught, a failure
\* feedback call is issued and the orchestrator goes back to waiting: every
\* step out of the transcription stage stays in the loop.
C2_TranscriptionFailureContinues ==
    [][(pc = "transcribe" /\ pc' # pc)
         => /\ pc' \in {"wait", "classify"}
            /\ result' = "running"
            /\ (pc' = "wait" => Len(fbLog') = Len(fbLog) + 1)]_vars

ChannelClosed == evQ = 0 /\ ~txAlive

\* C3: once wait() fails with Channel-closed, run() returns that error and
\* from then on no cycle is started and no capture, transcription,
\* classification or execution begins.
C3_ChannelClosureFatal ==
    [][/\ (pc = "wait" /\ ChannelClosed /\ pc' # pc)
            => (pc' = "drop" /\ result' = "Err(Hotkey(Channel))")
       /\ result = "Err(Hotkey(Channel))"
            => /\ pc' \in Returning
               /\ result' = result
               /\ started' = started
               /\ cpc' = cpc
               /\ executed' = executed]_vars

C3_Witness ==
    /\ result = "Err(Hotkey(Channel))"
    /\ pc = "returned"
    /\ started >= 1

----------------------------------------------------------------------------
(* Resource cleanup                                                        *)

\* C4: when the discard of the hotkey bridge has returned, the registration
\* has been released and the worker thread has exited; the discard first
\* posts the quit message (which a successful post puts last in the worker's
\* queue) and then joins, and it returns only from the join of an exited
\* worker.
C4_DropReleasesRegistration ==
    /\ [](pc = "returned" => (~registered /\ wpc = "exited" /\ ~txAlive))
    /\ [][(pc = "drop" /\ pc' # "drop")
            => /\ pc' = "join"
               /\ msgQ' \in {msgQ, Append(msgQ, WM_QUIT)}]_vars
    /\ [][(pc # "returned" /\ pc' = "returned")
            => (pc = "join" /\ wpc = "exited")]_vars

C4_Witness ==
    /\ pc = "returned"
    /\ result = "Err(Transcription)"
    /\ ~registered

\* C5: whenever run() has returned after the bridge was armed, the
\* registration is released and the worker joined; whenever capture() has
\* returned (success, build, play or buffer-lock failure), no input stream
\* is left open.
C5_CleanupOnEveryExit ==
    /\ pc = "returned" => (~registered /\ wpc = "exited" /\ streams = 0)
    /\ cpc = "done" => streams = 0
    /\ pc \in Returning => ~CaptureInProgress

C5_Witness ==
    /\ pc = "returned"
    /\ result = "Err(Audio)"
    /\ capResult.err \in {"PlayStream", "BufferAccess"}

----------------------------------------------------------------------------
(* Ordering of stages and cycles                                           *)

\* C6: within a cycle the stages start in the order capture, transcription,
\* classification, execution, each only after the previous one has
\* completed, and a new cycle starts only from the wait, when no capture of
\* an earlier cycle is still running.
C6_StagesSequential ==
    [][/\ (pc' = "await_capture" /\ pc' # pc) => pc = "wait"
       /\ (pc' = "transcribe" /\ pc' # pc)
            => (pc = "await_capture" /\ cpc = "done" /\ capResult.ok)
       /\ (pc' = "classify" /\ pc' # pc) => pc = "transcribe"
       /\ (pc' = "execute" /\ pc' # pc) => pc = "classify"
       /\ started' # started
            => /\ started' = started + 1
               /\ pc = "wait"
               /\ pc' = "await_capture"
               /\ ~CaptureInProgress
       /\ (cpc' # cpc) => pc' = "await_capture"]_vars

C6_Witness ==
    /\ started = 2
    /\ pc = "execute"

\* C7: a trigger pushed by the worker is never dropped: until run() has
\* returned, every pushed event is either still queued or has started a
\* cycle of its own, and cycles never outnumber triggers; unless run()
\* returns on a fatal error, the k-th trigger eventually starts the k-th
\* cycle.
C7_TriggersQueuedNotDropped ==
    /\ [](started <= emitted)
    /\ [](pc # "returned" => started + evQ = emitted)
    /\ \A k \in 1..MaxTriggers :
         (emitted >= k) ~> (started >= k \/ result # "running")

C7_Witness ==
    /\ pc \in {"transcribe", "classify", "execute"}
    /\ burst >= 1
    /\ evQ >= 1

\* C8 as stated: two triggers arriving during a capture (and no others)
\* lead to exactly one additional cycle.
C8_OneAdditionalCycle ==
    (mark # 0 /\ emitted = mark + 2) => started <= mark + 1

\* C8 amended: two triggers arriving during the capture of cycle `mark` stay
\* queued until each starts a cycle of its own: while run() has not
\* returned, the cycles started since plus the events still queued are at
\* least two, and exactly two when no other trigger was pushed; so when the
\* orchestrator waits on an empty queue, two additional cycles have started.
C8_TwoAdditionalCycles ==
    (mark # 0 /\ pc # "returned")
       => /\ (started - mark) + evQ >= 2
          /\ emitted = mark + 2 => (started - mark) + evQ = 2
          /\ (pc = "wait" /\ evQ = 0) => started >= mark + 2

C8_Witness ==
    /\ mark = 1
    /\ emitted = 3
    /\ started = 3
    /\ pc = "wait"
    /\ evQ = 0

\* C9: at most one input stream with its buffer is open at any time, and a
\* stream is open or a capture running only while the orchestrator awaits
\* that capture.
C9_SingleCaptureSession ==
    /\ streams <= 1
    /\ pc # "await_capture" => (streams = 0 /\ ~CaptureInProgress)

C9_Witness ==
    /\ started = 2
    /\ streams = 1
    /\ cpc = "sleep"

\* C10: a classification error (transport failure, malformed response,
\* unmapped target) is followed by exactly one error feedback call and the
\* wait for the next hotkey; run() does not return and the executor is not
\* invoked in that cycle.
C10_ClassifyErrorContinues ==
    /\ [][(pc = "classify" /\ pc' # pc /\ intent' = NoIntent)
            => /\ pc' = "wait"
               /\ result' = "running"
               /\ fbLog' = Append(fbLog, "error(Intent failed)")
               /\ executed' = 0]_vars
    /\ [](result # "Err(Intent)")
    /\ []((fbLog # <<>> /\ fbLog[Len(fbLog)] = "error(Intent failed)")
            => executed = 0)

C10_Witness ==
    /\ pc = "wait"
    /\ result = "running"
    /\ started >= 1
    /\ fbLog = <<"error(Intent failed)">>
    /\ executed = 0

----------------------------------------------------------------------------
(* Execution failure, event delivery and the worker's message loop         *)

ExecErrors ==
    {"Err(MissingMapping)", "Err(Windows)", "Err(UnknownIntent)",
     "Err(UnsupportedSystemAction)"}

\* C11: when the executor returns a failure for a classified intent, the
\* orchestrator makes one failure feedback call and goes back to waiting for
\* the next hotkey event; run() does not return because execution failed.
C11_ExecutorFailureContinues ==
    [][(pc = "execute" /\ pc' # pc)
         => /\ executed' = executed + 1
            /\ lastExec' \in ExecErrors =>
                 /\ pc' = "wait"
                 /\ result' = "running"
                 /\ \/ fbLog' = Append(fbLog, "error(Command failed)")
                    \/ fbLog' = Append(fbLog, "error(I don't know how to do that)")]_vars

C11_Witness ==
    /\ pc = "wait"
    /\ result = "running"
    /\ executed = 1
    /\ lastExec = "Err(Windows)"
    /\ fbLog = <<"error(Command failed)">>

\* C12: a wait() that returns takes exactly one event, the oldest one queued
\* (the k-th wait returns the k-th event the worker pushed); with an empty
\* queue and a live sender the orchestrator stays suspended in wait(); wait()
\* fails with Channel only on an empty queue whose sender is gone, so events
\* pushed before the worker exited are delivered first.
C12_WaitDeliversInOrder ==
    /\ [][(pc = "wait" /\ pc' # pc)
            => \/ /\ evQ > 0
                  /\ evQ' = evQ - 1
                  /\ lastEv' = Head(evSeq)
                  /\ evSeq' = Tail(evSeq)
                  /\ started' = started + 1
                  /\ result' = "running"
               \/ /\ evQ = 0
                  /\ ~txAlive
                  /\ started' = started
                  /\ result' = "Err(Hotkey(Channel))"]_vars
    /\ [][(pc = "wait" /\ evQ = 0 /\ txAlive)
            => (pc' = "wait" /\ started' = started)]_vars
    /\ [](/\ lastEv = started
          /\ pc \notin Returning =>
               /\ Len(evSeq) = evQ
               /\ \A i \in 1..Len(evSeq) : evSeq[i] = started + i)

C12_Witness ==
    /\ pc = "await_capture"
    /\ started = 2
    /\ lastEv = 2
    /\ wpc = "exited"
    /\ ~txAlive
    /\ evQ = 1

\* C13: while the worker is in its message loop, retrieving a hotkey message
\* that carries the bridge's identifier pushes exactly one event and leaves
\* the worker in the loop; retrieving any other message pushes none.
C13_OneEventPerMatchingMessage ==
    [][(wpc = "loop" /\ msgQ # <<>> /\ msgQ' = Tail(msgQ))
         => LET msg == Head(msgQ) IN
            IF msg.message = "WM_HOTKEY" /\ msg.wParam = hotkey_id
            THEN /\ evQ' = evQ + 1
                 /\ evSeq' = Append(evSeq, emitted + 1)
                 /\ emitted' = emitted + 1
                 /\ wpc' = "loop"
                 /\ registered' = registered
            ELSE /\ evQ' = evQ
                 /\ evSeq' = evSeq
                 /\ emitted' = emitted]_vars

C13_Witness ==
    /\ wpc = "loop"
    /\ registered
    /\ emitted = 2
    /\ evQ = 2
    /\ msgQ = <<[message |-> "WM_HOTKEY", wParam |-> hotkey_id + 1]>>

----------------------------------------------------------------------------
(* The bridge: lifecycle, construction, chord parsing                      *)

\* The lifecycle state of the bridge, read off the worker's position
BridgeState ==
    CASE wpc = "register"   -> "Registering"
      [] wpc = "loop"       -> "Armed"
      [] wpc = "unregister" -> "Unregistering"
      [] OTHER              -> "Unregistered"

ListedTransitions ==
    { <<"Unregistered", "Registering">>,
      <<"Registering", "Armed">>,
      <<"Armed", "Unregistering">>,
      <<"Unregistering", "Unregistered">> }

\* Events are pushed only by an armed worker that holds the registration and
\* stays armed; a worker that has left its loop and gone on holds none.
EmitsOnlyWhileRegistered ==
    /\ [][emitted' # emitted
            => /\ registered /\ registered'
               /\ BridgeState = "Armed" /\ BridgeState' = "Armed"]_vars
    /\ [](registered <=> wpc \in {"loop", "unregister"})

\* C14 as stated: the lifecycle takes only the transitions Unregistered ->
\* Registering -> Armed -> (Triggered -> Armed)* -> Unregistering ->
\* Unregistered; events are emitted only while the registration is held and
\* every exit from the message loop passes through unregistration.
C14_ListedTransitionsOnly ==
    /\ [][BridgeState' # BridgeState
            => <<BridgeState, BridgeState'>> \in ListedTransitions]_vars
    /\ EmitsOnlyWhileRegistered

\* C14, amended: the same, with one more transition: from Registering the
\* worker goes straight back to Unregistered, holding nothing and without
\* entering the loop, when it does not obtain the registration.
C14_LifecycleTransitions ==
    /\ [][BridgeState' # BridgeState
            => \/ <<BridgeState, BridgeState'>> \in ListedTransitions
               \/ /\ BridgeState = "Registering"
                  /\ BridgeState' = "Unregistered"
                  /\ ~registered /\ ~registered'
                  /\ emitted' = 0]_vars
    /\ [][(wpc = "loop" /\ wpc' # wpc) => (wpc' = "unregister" /\ registered')]_vars
    /\ EmitsOnlyWhileRegistered

C14_Witness ==
    /\ wpc = "exited"
    /\ newResult = "Ok"
    /\ regCall # NoCall
    /\ ~registered
    /\ emitted = 2

\* new() stays in ready_rx.recv() until the worker has reported or its
\* sender is gone, and can return as soon as either has happened, whatever
\* the worker does afterwards.
BlocksOnlyOnHandoff ==
    /\ [][(pc = "new_recv" /\ ready.t = "empty") => pc' = "new_recv"]_vars
    /\ [](pc = "new_recv" /\ ready.t # "empty" => ENABLED NewRecvReady)

\* A registration error is returned when the worker reported one: nothing
\* is held and the worker is on its way out without having entered its loop.
\* ThreadInit is returned when the worker ended without reporting.
FailureReports ==
    /\ [](newResult = "Err(Register)"
            => /\ result = "Err(Hotkey(Register))"
               /\ ~registered
               /\ wpc \in {"exiting", "exited"}
               /\ emitted = 0)
    /\ [](newResult = "Err(ThreadInit)"
            => /\ result = "Err(Hotkey(ThreadInit))"
               /\ ready.t = "closed"
               /\ wpc = "exited"
               /\ ~registered)
    /\ []((pc = "returned" /\ ready.t = "Err(Register)")
            => newResult = "Err(Register)")

\* C15 as stated: new() blocks only on the handoff; when it returns Ok the
\* registration is held and the handle carries the worker's thread id; a
\* failed registration and a worker that ended without reporting give the
\* registration error and ThreadInit.
C15_OkMeansRegistrationHeld ==
    /\ BlocksOnlyOnHandoff
    /\ FailureReports
    /\ [][(newResult = "pending" /\ newResult' = "Ok")
            => (registered' /\ thread_id' = WorkerTid)]_vars

\* C15, amended: when new() returns Ok the worker has obtained the
\* registration and reported its own thread id, which the handle carries;
\* the registration is held unless the worker has already left its message
\* loop and released it. The rest as stated.
C15_OkMeansRegistrationObtained ==
    /\ BlocksOnlyOnHandoff
    /\ FailureReports
    /\ [][(newResult = "pending" /\ newResult' = "Ok")
            => /\ thread_id' = WorkerTid
               /\ regCall' = RegisterArgs(hotkey_id, chord)
               /\ \/ registered' /\ wpc' \in {"loop", "unregister"}
                  \/ ~registered' /\ wpc' \in {"exiting", "exited"}]_vars

C15_Witness ==
    /\ pc = "wait"
    /\ newResult = "Ok"
    /\ thread_id = WorkerTid
    /\ registered
    /\ wpc = "loop"
    /\ emitted = 1

\* The tokens of the configured chord as the parser compares them
ChordTokens ==
    LET pieces == Split(chord, "+") IN
    [i \in 1..Len(pieces) |-> ToLower(Trim(pieces[i]))]

HasUnknownToken ==
    \E i \in 1..Len(ChordTokens) :
        ModifierOf(ChordTokens[i]) = None /\ ChordTokens[i] \notin KeyNames

HasNoKeyToken ==
    \A i \in 1..Len(ChordTokens) : ChordTokens[i] \notin KeyNames

\* C16: when the configured chord has a token that names neither a modifier
\* nor a key, or has no key token, HotkeyListener::new fails with a parse
\* error: no worker is spawned, RegisterHotKey is never called and no
\* registration is held afterwards.
C16_BadChordIsParseError ==
    ((HasUnknownToken \/ HasNoKeyToken) /\ pc # "new")
        => /\ newResult = "Err(Parse)"
           /\ result = "Err(Hotkey(Parse))"
           /\ pc = "returned"
           /\ wpc = "unspawned"
           /\ regCall = NoCall
           /\ ~registered

C16_Witness ==
    /\ chord = <<"c", "t", "r", "l", "+", "h", "y", "p", "e", "r", "+", "b">>
    /\ HasUnknownToken
    /\ ~HasNoKeyToken
    /\ newResult = "Err(Parse)"
    /\ pc = "returned"
    /\ regCall = NoCall

----------------------------------------------------------------------------
(* The manual trigger                                                      *)

\* C17: on platforms without OS hotkeys every successful wait() corresponds
\* to exactly one line entered on standard input: the waits that returned an
\* event never outnumber the lines consumed.
C17_OneConfirmationPerEvent == manualEvents <= confirmed

----------------------------------------------------------------------------
(* Intent validation and confidence                                        *)

\* infer_intent has returned for a reply that was parsed as a RawIntent
Classified ==
    /\ iResult # NoResult
    /\ ~IsBlank(iInput.transcription)
    /\ iInput.reply.t = "Json"

\* The action names an open or system action, the target is there, and the
\* target is not in the table the action looks in
UnmappedTarget ==
    LET raw == iInput.reply.raw
        a == IF raw.action = None THEN "" ELSE ToLowercase(raw.action)
    IN /\ raw.target # None
       /\ \/ a = "open_file" /\ raw.target \notin files
          \/ a = "open_app" /\ raw.target \notin applications
          \/ a = "system" /\ raw.target \notin system_actions

\* C18: a structurally valid response whose target is not in the table of
\* its action makes infer_intent fail with UnknownTarget: no intent is
\* returned, Unknown included.
C18_UnmappedTargetFails ==
    (Classified /\ UnmappedTarget)
        => /\ ~iResult.ok
           /\ iResult.err = "UnknownTarget"
           /\ iResult.intent = NoIntent

C18_Witness ==
    /\ Classified
    /\ iInput.reply.raw.action = "open_file"
    /\ iInput.reply.raw.target = "ghost"
    /\ iInput.reply.raw.confidence = [shape |-> "number", n |-> 45]
    /\ iResult.err = "UnknownTarget"

\* C19: every intent infer_intent returns carries a confidence within
\* [0.0, 1.0] (0 to 100 hundredths).
C19_ConfidenceInUnitInterval ==
    (iResult # NoResult /\ iResult.ok)
        => (iResult.intent.confidence >= 0 /\ iResult.intent.confidence <= 100)

\* The confidence the claim's table gives for a shape, strings compared as
\* they arrived
ListedConfidence(c) ==
    CASE c.shape = "number" -> c.n
      [] c.shape = "string" /\ c.s = <<"h", "i", "g", "h">> -> 90
      [] c.shape = "string" /\ c.s = <<"m", "e", "d", "i", "u", "m">> -> 60
      [] c.shape = "string" /\ c.s = <<"l", "o", "w">> -> 30
      [] c.shape = "bool" /\ c.b -> 100
      [] OTHER -> 0

\* The same table with the string compared without regard to case
ListedConfidenceAnyCase(c) ==
    IF c.shape = "string"
    THEN ListedConfidence([shape |-> "string", s |-> ToLower(c.s)])
    ELSE ListedConfidence(c)

\* C20 as stated: a number decodes to itself; the strings high, medium, low
\* to 0.9, 0.6, 0.3 and any other string to 0.0; true to 1.0 and false to
\* 0.0; a missing field or any other shape to 0.0.
C20_DecodingAsListed ==
    (Classified /\ iResult.ok)
        => iResult.intent.confidence = ListedConfidence(iInput.reply.raw.confidence)

\* C20, amended: the same, the strings high, medium and low being recognised
\* in any mix of capitals and small letters.
C20_DecodingIgnoringCase ==
    (Classified /\ iResult.ok)
        => iResult.intent.confidence
             = ListedConfidenceAnyCase(iInput.reply.raw.confidence)

C20_Witness ==
    /\ Classified
    /\ iResult.ok
    /\ iInput.reply.raw.confidence = [shape |-> "string", s |-> <<"M", "e", "d", "i", "u", "m">>]
    /\ iResult.intent.kind = "Answer"
    /\ iResult.intent.confidence = 60

\* C21: infer_intent on an empty or whitespace-only transcript returns
\* Unknown with confidence 0 and posts no request to the classifier,
\* whatever the classifier would have replied.
C21_BlankTranscriptIsUnknown ==
    (/\ iResult # NoResult
     /\ \A k \in 1..Len(iInput.transcription) :
            iInput.transcription[k] \in Whitespace)
        => /\ iResult.ok
           /\ iResult.intent.kind = "Unknown"
           /\ iResult.intent.confidence = 0
           /\ ~iResult.sent

\* A whitespace-only transcript was classified while the classifier would
\* have answered with a well-formed intent
C21_Witness ==
    /\ iResult # NoResult
    /\ iInput.transcription = <<" ", "\t">>
    /\ iInput.reply.t = "Json"
    /\ iInput.reply.raw.action = "open_file"
    /\ iResult.intent.kind = "Unknown"
    /\ ~iResult.sent

\* The names the decoder recognises as actions, whatever their case
RecognizedActions == {"open_file", "open_app", "system", "answer"}

\* The reply names no action, or one the decoder does not recognise
ActionNotRecognized ==
    LET raw == iInput.reply.raw
    IN \/ raw.action = None
       \/ ToLowercase(raw.action) \notin RecognizedActions

\* The reply names a recognised action without the field that action needs
RequiredFieldMissing ==
    LET raw == iInput.reply.raw
    IN /\ raw.action # None
       /\ \/ /\ ToLowercase(raw.action) \in {"open_file", "open_app", "system"}
             /\ raw.target = None
          \/ /\ ToLowercase(raw.action) = "answer"
             /\ raw.response = None

\* C22: a parsed reply whose action is absent or not recognised, or whose
\* recognised action lacks its required field (the target of open_file,
\* open_app and system, the response text of answer), is returned as
\* the Unknown intent.
C22_MalformedReplyIsUnknown ==
    (Classified /\ (ActionNotRecognized \/ RequiredFieldMissing))
        => /\ iResult.ok
           /\ iResult.intent.kind = "Unknown"
           /\ iResult.intent.target = None
           /\ iResult.intent.response = None

\* An open_file reply without a target was classified
C22_Witness ==
    /\ Classified
    /\ iInput.reply.raw.action = "open_file"
    /\ iInput.reply.raw.target = None
    /\ iInput.reply.raw.response = "5"
    /\ iResult.ok
    /\ iResult.intent.kind = "Unknown"

\* infer_intent returned the intent the orchestrator holds, for the
\* transcript of this cycle and some reply of the classifier
ReturnedByClassify ==
    \E reply \in PipelineReplies :
        LET r == infer_intent(transcript, reply)
        IN r.ok /\ r.intent = intent

\* C23: within the cycle of one trigger the executor is invoked at most
\* once; whenever the orchestrator is about to invoke it, nothing has been
\* executed in this cycle yet and the intent it hands over is one that
\* infer_intent returned and whose target passes validation.
C23_ExecutesValidatedIntentOnce ==
    /\ executed <= 1
    /\ (executed = 1) => (pc # "execute" /\ lastExec # None)
    /\ (pc = "execute")
         => /\ executed = 0
            /\ intent # NoIntent
            /\ validate_intent_target(intent)
            /\ ReturnedByClassify

\* A validated open intent was executed, once, and the loop went on
C23_Witness ==
    /\ pc = "wait"
    /\ executed = 1
    /\ lastExec = "Ok(Action)"
    /\ fbLog = <<"success()">>

----------------------------------------------------------------------------
(* Resampling                                                              *)

\* resample_linear has returned for aInput
Resampled == aResult.f = "resample"

\* The quotient a / b of two positive integers, rounded up
CeilDiv(a, b) == (a + b - 1) \div b

\* C24: for N >= 2 samples and a source rate R other than 16000, the output
\* of resampling to 16000 has max(1, ceil(N * 16000 / R)) samples, which is
\* N * 16000 / R itself when R is a multiple of 16000 and the quotient is
\* whole.
C24_LengthIsCeiling ==
    (/\ Resampled
     /\ Len(aInput.samples) >= 2
     /\ aInput.dst_rate = TargetRate
     /\ aInput.src_rate # TargetRate)
        => LET N == Len(aInput.samples)
               R == aInput.src_rate
               expected == CeilDiv(N * TargetRate, R)
           IN /\ Len(aResult.out) = IF expected < 1 THEN 1 ELSE expected
              /\ (R % TargetRate = 0 /\ (N * TargetRate) % R = 0)
                    => Len(aResult.out) * R = N * TargetRate

----------------------------------------------------------------------------
(* Sample normalization                                                    *)

\* C26: the conversion maps every native sample into the i16 range: an i16
\* sample is passed through; a u16 sample u becomes u - 32768 (32768
\* becomes 0, 0 becomes -32768, 65535 becomes 32767); an f32 sample is
\* clamped to [-1.0, 1.0] before it is scaled by i16::MAX, so every value of
\* 1.0 or more becomes i16::MAX and every value of -1.0 or less -i16::MAX.
C26_NormalizedIntoInt16 ==
    (aResult.f = "convert")
        => LET s == aInput.sample.v
               out == aResult.out
           IN /\ out \in i16_MIN..i16_MAX
              /\ aInput.format = "I16" => out = s
              /\ aInput.format = "U16" =>
                    /\ out = s - 32768
                    /\ s = 32768 => out = 0
                    /\ s = 0 => out = -32768
                    /\ s = 65535 => out = 32767
              /\ (aInput.format = "F32" /\ ~aInput.sample.nan) =>
                    /\ s >= 1000 => out = i16_MAX
                    /\ s <= -1000 => out = -i16_MAX
                    /\ s \in 0..1000 =>
                          (out * 1000 <= s * i16_MAX /\ s * i16_MAX < (out + 1) * 1000)
                    /\ s \in -1000..0 =>
                          (out * 1000 >= s * i16_MAX /\ s * i16_MAX > (out - 1) * 1000)

\* The float sample 1.5 was converted
C26_Witness ==
    /\ aResult.f = "convert"
    /\ aInput.format = "F32"
    /\ aInput.sample = Native(1500)
    /\ aResult.out = i16_MAX

----------------------------------------------------------------------------
(* The capture session                                                     *)

\* C27: with C > 1 channels, every complete frame of C samples handed to a
\* callback adds one sample to the buffer, the average of the frame's C
\* normalized samples truncated toward zero, the frames in the order they
\* came; samples after the last complete frame add nothing.  With one
\* channel every normalized sample is appended as it is, in order.
C27_FrameAveraging ==
    [][(cbpc = "locked" /\ cbpc' = "idle" /\ poisoned' = poisoned)
         => LET C == channels
                n == Len(chunk)
            IN /\ C > 1 =>
                    buffer' = buffer \o
                        [j \in 1..(n \div C) |->
                            TruncDiv(Sum([p \in 1..C |->
                                convert(sample_format, chunk[(j - 1) * C + p])]), C)]
               /\ C = 1 =>
                    buffer' = buffer \o
                        [k \in 1..n |-> convert(sample_format, chunk[k])]]_vars

\* A two-channel i16 device: the callback was handed a frame and a half and
\* appended the frame's average
C27_Witness ==
    /\ channels = 2
    /\ sample_format = "I16"
    /\ Len(delivered) = 2
    /\ delivered[1] = Delivery(<<Native(-1), Native(0)>>, "appended", <<0>>)
    /\ delivered[2].data = <<Native(i16_MAX), Native(i16_MAX), Native(-1)>>
    /\ buffer = <<0, i16_MAX>>

\* The samples the callbacks of this session appended, in callback order
RECURSIVE Appended(_)
Appended(log) ==
    IF log = <<>> THEN <<>> ELSE Head(log).out \o Appended(Tail(log))

IsPrefix(s, t) == Len(s) <= Len(t) /\ SubSeq(t, 1, Len(s)) = s

\* C28: what capture takes from the buffer is exactly what the callbacks of
\* the session appended, in callback order.  A callback's append and the
\* final drain never hold the lock together; from the start of the stream
\* to the drain the buffer only grows, each time by what one callback
\* appends; once the stream is stopped and the buffer drained no callback
\* runs or appends.
C28_DrainIsWhatCallbacksAppended ==
    /\ [](~(cbpc = "locked" /\ cpc = "take"))
    /\ [](locked <=> (cbpc = "locked" \/ cpc = "take"))
    /\ []((cpc \in {"sleep", "drain", "take"} /\ ~poisoned)
            => buffer = Appended(delivered))
    /\ []((cpc = "done" /\ capResult.ok)
            => /\ capResult.data = Appended(delivered)
               /\ buffer = <<>>
               /\ cbpc = "idle")
    /\ [][(cpc \in {"sleep", "drain"} /\ cpc' \in {"sleep", "drain", "take"})
            => IsPrefix(buffer, buffer')]_vars
    /\ [][(cpc = "done")
            => (delivered' = delivered /\ buffer' = buffer /\ cbpc' = "idle")]_vars

\* Two callbacks appended, the second one after the stream was dropped, and
\* the drain returned both chunks in order
C28_Witness ==
    /\ cpc = "done"
    /\ capResult.ok
    /\ channels = 1
    /\ sample_format = "U16"
    /\ Len(delivered) = 2
    /\ delivered[1].data = <<Native(32767), Native(32768)>>
    /\ delivered[2].data = <<Native(0)>>
    /\ capResult.data = <<-1, 0, i16_MIN>>

\* A lock attempt of the session failed: a callback's or the drain's
LockFailed ==
    \/ \E k \in 1..Len(delivered) : delivered[k].outcome = "lock_failed"
    \/ cpc = "done" /\ poisoned

\* C29: a lock attempt fails only after a callback has panicked, and when
\* any lock attempt of the session has failed capture returns the
\* BufferAccess error, never a sample sequence.
C29_LockFailureIsReported ==
    /\ LockFailed => \E k \in 1..Len(delivered) : delivered[k].outcome = "panicked"
    /\ (\A k \in 1..Len(delivered) : delivered[k].outcome = "lock_failed"
           => \E h \in 1..(k - 1) : delivered[h].outcome = "panicked")
    /\ (cpc = "done" /\ LockFailed) => capResult = CaptureErr("BufferAccess")

\* A callback appended, the next one panicked, and capture returned the error
C29_Witness ==
    /\ cpc = "done"
    /\ Len(delivered) = 2
    /\ delivered[1].outcome = "appended"
    /\ delivered[2].outcome = "panicked"
    /\ capResult = CaptureErr("BufferAccess")

----------------------------------------------------------------------------
(* Device selection                                                        *)

\* The enumerated devices whose name can be read and equals the configured
\* name exactly
Matching ==
    {k \in 1..Len(aInput.host.devices) :
        /\ aInput.host.devices[k].readable
        /\ aInput.host.devices[k].name = aInput.device_name}

\* C30: with a device name configured, the capturer is built on an
\* enumerated input device whose name equals it exactly, the first such
\* one; when the enumeration yields no such device the constructor fails
\* with DeviceNotFound, whether or not a default device exists.  With no
\* name configured the capturer is built on the default input device, and
\* the constructor fails with NoDefaultDevice when there is none.
C30_DeviceSelection ==
    (aResult.f = "new")
        => LET h == aInput.host
           IN /\ (aInput.device_name # None /\ aResult.ok)
                    => /\ Matching # {}
                       /\ \E k \in Matching :
                             /\ h.devices[k].id = aResult.device
                             /\ \A m \in Matching : k <= m
              /\ (aInput.device_name # None /\ h.enumerable /\ Matching # {}
                    /\ aInput.configOk) => aResult.ok
              /\ (aInput.device_name # None /\ h.enumerable /\ Matching = {})
                    => aResult = NewErr("DeviceNotFound")
              /\ (aInput.device_name = None /\ h.default # NoDevice
                    /\ aInput.configOk) => aResult = NewOk(h.default)
              /\ (aInput.device_name = None /\ aResult.ok)
                    => aResult.device = h.default
              /\ (aInput.device_name = None /\ h.default = NoDevice)
                    => aResult = NewErr("NoDefaultDevice")

\* "Mic" is configured, the host has "mic" and a device whose name cannot
\* be read, "mic" being the default: the constructor failed
C30_Witness ==
    /\ aResult = NewErr("DeviceNotFound")
    /\ aInput.device_name = "Mic"
    /\ aInput.host.enumerable
    /\ aInput.host.devices = <<Device(2, "mic", TRUE), Device(4, "", FALSE)>>
    /\ aInput.host.default = 2

----------------------------------------------------------------------------
(* Level measurement                                                       *)

\* peak_rms has been called for aInput
Measured == aResult.f = "peak_rms"

RECURSIVE MaxAbs(_)
MaxAbs(s) ==
    IF s = <<>>
    THEN 0
    ELSE LET a == IF Head(s) < 0 THEN -Head(s) ELSE Head(s)
             m == MaxAbs(Tail(s))
         IN IF a > m THEN a ELSE m

\* The sum of the squares of s, in units of Word and a remainder below Word
RECURSIVE SquaresHi(_)
SquaresHi(s) ==
    IF s = <<>> THEN 0
    ELSE ((Head(s) * Head(s)) \div Word) + SquaresHi(Tail(s))

RECURSIVE SquaresLo(_)
SquaresLo(s) ==
    IF s = <<>> THEN 0
    ELSE ((Head(s) * Head(s)) % Word) + SquaresLo(Tail(s))

\* C31: for every sequence of int16 samples, sequences containing -32768
\* included, measure returns as peak the maximum absolute value over the
\* samples, and its accumulator holds the exact sum of the squared samples.
C31_PeakIsMaxAbs ==
    Measured
        => /\ ~aResult.panic
           /\ aResult.peak = MaxAbs(aInput.samples)
           /\ aResult.sum_sq.lo = SquaresLo(aInput.samples) % Word
           /\ aResult.sum_sq.hi = SquaresHi(aInput.samples)
                                     + (SquaresLo(aInput.samples) \div Word)

----------------------------------------------------------------------------
(* Startup readiness                                                       *)

Probing == pc \in {"probe", "probe_ok", "probe_err"}

\* C32: the readiness probe is made at most 240 times, each failed probe but
\* the last being followed by the next attempt; startup goes on after the
\* first probe that succeeds; the failure of the last attempt is returned, and
\* then no hotkey is ever registered and no cycle ever started; the retry
\* loop always ends.
C32_ProbeIsBoundedAndTerminates ==
    /\ [](attempt \in 0..attempts)
    /\ [](Probing => attempt \in 1..attempts)
    /\ [][pc = "probe_ok" => pc' = "build"]_vars
    /\ [][pc = "probe_err"
            => IF attempt = attempts
               THEN pc' = "returned" /\ result' = "Err(Readiness)"
               ELSE pc' = "probe" /\ attempt' = attempt + 1]_vars
    /\ [](result = "Err(Readiness)"
            => /\ pc = "returned"
               /\ wpc = "unspawned"
               /\ ~registered
               /\ regCall = NoCall
               /\ started = 0)
    /\ Probing ~> ~Probing

\* The last of the 240 probes has failed and run() has returned its error
C32_Witness ==
    /\ result = "Err(Readiness)"
    /\ attempt = attempts

----------------------------------------------------------------------------
(* Reads of the interpolation                                              *)

\* resample_linear took its interpolation path for aInput
Interpolated ==
    /\ Resampled
    /\ Len(aInput.samples) >= 2
    /\ aInput.src_rate # aInput.dst_rate
    /\ ~(aInput.src_rate % aInput.dst_rate = 0
         /\ aInput.src_rate \div aInput.dst_rate > 1)

\* C33: in the interpolation path, for N >= 2 samples, positive rates and
\* every output index i, the lower index floor(i * src_rate / dst_rate) is
\* within 0..N-1 and the upper sample is the one at index + 1, or the last
\* sample when index + 1 is past the end; no read is outside the input.
C33_ReadsStayInside ==
    Interpolated
        => LET N == Len(aInput.samples)
           IN /\ ~aResult.panic
              /\ Len(aResult.reads) = Len(aResult.out)
              /\ \A k \in 1..Len(aResult.reads) :
                    LET lower == aResult.reads[k].lower
                        upper == aResult.reads[k].upper
                    IN /\ lower * aInput.dst_rate <= (k - 1) * aInput.src_rate
                       /\ (k - 1) * aInput.src_rate < (lower + 1) * aInput.dst_rate
                       /\ lower \in 0..(N - 1)
                       /\ upper = IF lower + 1 > N - 1 THEN N - 1 ELSE lower + 1

\* An interpolation whose last output brackets the last sample with itself,
\* and whose first brackets two different samples
C33_Witness ==
    /\ Interpolated
    /\ ~aResult.panic
    /\ Len(aResult.reads) >= 2
    /\ aResult.reads[1] = [lower |-> 0, upper |-> 1]
    /\ LET last == aResult.reads[Len(aResult.reads)]
       IN /\ last.lower = Len(aInput.samples) - 1
          /\ last.upper = last.lower

----------------------------------------------------------------------------
(* Termination of the drop                                                 *)

\* C34: discarding the listener always terminates: once drop has begun, the
\* worker leaves its loop and exits and the join returns, whether or not
\* events are still queued, the worker has already exited, or the posting of
\* the quit message failed.
C34_DropTerminates == (pc = "drop") ~> (pc = "returned")

----------------------------------------------------------------------------
(* Feedback of a cycle                                                     *)

\* main.rs 190, 200, 209, 372-385: the feedback calls a cycle can make
FeedbackCalls ==
    {"success()", "say(response)", "say(help)",
     "error(I didn't hear anything)", "error(Intent failed)",
     "error(I don't know how to do that)", "error(Command failed)"}

\* C35: a cycle that has ended with the orchestrator back at the hotkey wait
\* has made exactly one feedback call (success, error, or the spoken answer
\* or help), and no cycle makes more than one; a cycle still under way, or
\* one that ends run(), has made at most one.
C35_OneFeedbackPerCycle ==
    /\ Len(fbLog) <= 1
    /\ \A k \in 1..Len(fbLog) : fbLog[k] \in FeedbackCalls
    /\ (pc = "wait" /\ started >= 1) => Len(fbLog) = 1
    /\ (pc = "wait" /\ started = 0) => fbLog = <<>>

\* The second cycle has ended at the wait with the error call for a blank
\* transcript
C35_Witness ==
    /\ pc = "wait"
    /\ started = 2
    /\ fbLog = <<"error(I didn't hear anything)">>

----------------------------------------------------------------------------
(* Validation and execution agree                                          *)

\* The validated intent of iInput has been handled
Handled == iResult.ok /\ pc = "wait"

\* C36: an intent that passed validate_intent_target against a configuration
\* is executed against that configuration without MissingMapping and without
\* UnsupportedSystemAction: a validated OpenFile or OpenApp key is in the
\* table the executor looks up, and every name of the enabled system actions
\* is recognized by the executor's parser.
C36_ValidatedIntentIsExecutable ==
    /\ Handled
          => /\ executed = 1
             /\ lastExec \notin {"Err(MissingMapping)",
                                 "Err(UnsupportedSystemAction)"}
    /\ iResult.ok
          => /\ iResult.intent.kind = "OpenFile"
                   => iResult.intent.target \in iInput.config.files
             /\ iResult.intent.kind = "OpenApp"
                   => iResult.intent.target \in iInput.config.applications
    /\ \A a \in enabled_actions(iInput.config.system) : parse_system_action(a)

\* The enabled action volume_set, which the parser takes by its prefix, has
\* been validated and executed
C36_Witness ==
    /\ Handled
    /\ iResult.intent.kind = "System"
    /\ iResult.intent.target = "volume_set"
    /\ lastExec = "Ok(Action)"

\* C37: what the executor does and which feedback call follows depend on the
\* intent's variant, its target or response and the mapping tables, never on
\* its confidence: the validated intent with any other confidence is
\* validated too and leads to the same execution result and feedback call.
C37_ConfidenceDoesNotGate ==
    Handled
        => \A c \in ExecConfidences :
              LET other == [iResult.intent EXCEPT !.confidence = c]
                  res   == execute_with(other, iInput.config, iInput.osOk)
              IN /\ validate_target(other, iInput.config)
                 /\ executed = 1
                 /\ lastExec = res
                 /\ fbLog = <<FeedbackFor(res)>>

\* An intent of confidence 0.0 has been executed with success
C37_Witness ==
    /\ Handled
    /\ iResult.intent.confidence = 0
    /\ iResult.intent.kind = "OpenApp"
    /\ lastExec = "Ok(Action)"
    /\ fbLog = <<"success()">>

====
